---- MODULE Spec2Model ----
(***************************************************************************)
(* Model of the cloudron command line client: the polling loops that wait  *)
(* for an asynchronous server-side operation (install, update, configure,  *)
(* backup, restore, clone, uninstall, restart, box backup) to finish.      *)
(*                                                                         *)
(* One behaviour is one CLI invocation (one node process).  The process is *)
(* single threaded: every action below is one callback of the event loop   *)
(* (a response callback, a timer callback, or the command's entry point).  *)
(***************************************************************************)
EXTENDS Integers, Sequences, FiniteSets, TLC

(***************************************************************************)
(* Bounds of the model.                                                    *)
(***************************************************************************)
\* the poll counter `polls` (a history variable) saturates at this value
MaxPolls == 3

\* chunks local stdin emits in one run
MaxChunks == 2

\* frames the server sends in one run
MaxFrames == 2

\* the interval between two checks of a polling loop, in ms
PollInterval == 1000

(***************************************************************************)
(* JavaScript values: a string is a sequence of tokens, null is null.      *)
(***************************************************************************)
Null == [type |-> "null", s |-> <<>>]

StrVal(s) == [type |-> "string", s |-> s]

\* undefined: the value of a field the object does not have
Absent == [type |-> "undefined", s |-> <<>>]

\* String(v), as `new Error(v)` and string concatenation convert a value
ToStr(v) == IF v.type = "null" THEN StrVal(<<"null">>) ELSE v

\* truthiness of a string-or-null value
Truthy(v) == v.type = "string" /\ v.s # <<>>

\* s.indexOf(t) for a one-token needle t: 0-based index, -1 when absent
indexOf(s, t) ==
    IF \E i \in 1..Len(s) : s[i] = t
    THEN (CHOOSE i \in 1..Len(s) : s[i] = t /\ \A j \in 1..(i - 1) : s[j] # t) - 1
    ELSE -1

\* s.split(','): the pieces between the commas, always at least one piece
RECURSIVE split(_)
split(s) ==
    IF indexOf(s, ",") = -1 THEN <<s>>
    ELSE <<SubSeq(s, 1, indexOf(s, ","))>> \o split(SubSeq(s, indexOf(s, ",") + 2, Len(s)))

\* s.trim(): leading and trailing blanks removed
RECURSIVE trim(_)
trim(s) ==
    IF s # <<>> /\ Head(s) = " " THEN trim(Tail(s))
    ELSE IF s # <<>> /\ s[Len(s)] = " " THEN trim(SubSeq(s, 1, Len(s) - 1))
    ELSE s

(***************************************************************************)
(* The server's answers.                                                   *)
(***************************************************************************)
\* installationProgress values the app resource carries
ProgressValues ==
    { Null,
      StrVal(<<>>),
      StrVal(<<"boom">>),
      StrVal(<<"10", ",", " ", "Downloading image">>),
      StrVal(<<"a", ",", "b", ",", "c">>),
      StrVal(<<"Creating image">>) }

StatusCodes == {200, 204, 404, 500}

Undefined == "undefined"

\* the body of an answer that is not the resource (an error page): no field is set
NoBody ==
    [installationState |-> Undefined, installationProgress |-> Null,
     health |-> Undefined, runState |-> Undefined,
     percent |-> 0, message |-> StrVal(<<>>)]

AppBodies ==
    [installationState : {"pending", "installed", "error"},
     installationProgress : ProgressValues,
     health : {"healthy", "unhealthy"},
     runState : {"running", "stopped"},
     percent : {0}, message : {StrVal(<<>>)}]

\* app resources, still being installed, that carry no installationProgress
IncompleteBodies ==
    [installationState : {"pending"},
     installationProgress : {Absent},
     health : {"unhealthy"},
     runState : {"running"},
     percent : {0}, message : {StrVal(<<>>)}]

\* backup.percent and backup.message of the progress resource
ProgressBodies ==
    [installationState : {Undefined}, installationProgress : {Null},
     health : {Undefined}, runState : {Undefined},
     percent : {50, 100}, message : {StrVal(<<>>), StrVal(<<"disk full">>)}]

\* no HTTP response at all
TransportFailure == [transport |-> TRUE, status |-> 0, text |-> "", body |-> NoBody]

HttpResponse(status, body) ==
    [transport |-> FALSE, status |-> status, text |-> "oops", body |-> body]

\* every answer a GET of the app resource can get
AppResponses ==
    {TransportFailure}
    \cup {HttpResponse(200, b) : b \in AppBodies}
    \cup {HttpResponse(c, NoBody) : c \in StatusCodes \ {200}}

\* 200 answers whose app resource carries no installationProgress
IncompleteResponses == {HttpResponse(200, b) : b \in IncompleteBodies}

\* every answer a GET of the progress resource can get
ProgressResponses ==
    {TransportFailure}
    \cup {HttpResponse(200, b) : b \in ProgressBodies}
    \cup {HttpResponse(c, NoBody) : c \in StatusCodes \ {200}}

\* every answer a triggering POST can get
PostResponses ==
    {TransportFailure}
    \cup {HttpResponse(c, NoBody) : c \in {201, 202, 403, 404, 409, 500}}

\* superagent: the error argument of an end() callback is set when there is no
\* response and when the response status is 4xx or 5xx
SuperagentError(r) == r.transport \/ r.status >= 400

(***************************************************************************)
(* Errors, as the callbacks receive them.                                  *)
(***************************************************************************)
NoError == [set |-> FALSE, response |-> FALSE, message |-> StrVal(<<>>)]

\* new Error(v): the message is String(v)
NewError(v) == [set |-> TRUE, response |-> FALSE, message |-> ToStr(v)]

\* the error superagent hands over: none for a 1xx..3xx answer, one without a
\* response for a transport failure, one carrying the response for 4xx and 5xx
RequestError(r) ==
    IF r.transport THEN [set |-> TRUE, response |-> FALSE, message |-> StrVal(<<"ECONNREFUSED">>)]
    ELSE IF r.status >= 400 THEN [set |-> TRUE, response |-> TRUE, message |-> StrVal(<<"Unsuccessful HTTP response">>)]
    ELSE NoError

\* util.format(prefix, statusCode, text) with a prefix that has no placeholder:
\* the two arguments are appended, separated by blanks
format(prefix, status, text) == StrVal(<<prefix, " ", ToString(status), " ", text>>)

(***************************************************************************)
(* The pollers (one per polling closure of the source) and the completion  *)
(* callbacks their callers pass in.                                        *)
(***************************************************************************)
Pollers ==
    {"waitForHealthy", "waitForFinishInstallation", "waitForBackupCompletion",
     "stopApp", "startApp", "uninstall", "waitForBackupFinish", "createBackup"}

\* pollers that GET the app resource; the others GET the box progress resource
AppPollers == {"waitForHealthy", "waitForFinishInstallation", "stopApp", "startApp", "uninstall"}

Callbacks ==
    {"installer", "backup", "restore", "clone",
     "restartStopped", "restartStarted", "restartHealthy", "boxBackup"}

NoCallback == "none"

\* the CLI invocations of the model
Commands ==
    [name : {"install"}, wait : BOOLEAN, message : {"installed", "configured", "updated"}]
    \cup [name : {"backup", "restore", "clone", "uninstall", "restart",
                  "boxBackup", "machineBackup", "ec2Backup"},
          wait : {FALSE}, message : {""}]

VARIABLES
    cmd,                \* the command this process runs and its options
    started,            \* the command's entry point has run
    post,               \* the triggering POST in flight: "none", "submit", "stop", "start"
    inflight,           \* per poller: status GETs in flight
    timers,             \* per poller: pending setTimeout(checkStatus, 1000) timers
    delay,              \* per poller: the delay, in ms, of the timer it set last
    cb,                 \* per poller: the callback parameter of its closure
    waitForHealthcheck, \* waitForFinishInstallation's parameter
    currentProgress,    \* waitForFinishInstallation's closure variable
    called,             \* per callback: how many times it was invoked
    cbError,            \* per callback: the error argument of its last invocation
    wrote,              \* what the last callback wrote to the terminal, in order
    printed,            \* everything written so far
    exited,             \* the process has exited
    exitCode,           \* its exit code
    server,             \* the app as the server holds it (the environment)
    began,              \* history: the server changed installationState after the request was sent
    polls,              \* history: status GETs issued so far, saturating at MaxPolls
    last,               \* history: the event the last step handled
    seen,               \* history: installationProgress of the install poller's previous non-final answer
    flip,               \* history: toggles at every step
    options,            \* exec: the options and the command vector it is invoked with
    tty,                \* exec: its variable tty
    query,              \* exec: the query of the upgrade request
    lookup,             \* exec: the app lookup GET in flight: "none", "app", "apps"
    req,                \* exec: the upgrade request: "none", "sent", "answered", "upgraded", "failed"
    socket,             \* exec: the socket: "none", "raw", "framed", "eof" (closed by the server, no 'end' emitted), "ended"
    requests,           \* exec, history: requests issued so far, by kind
    input,              \* exec, history: the chunks local stdin has emitted, in order
    stdinEnded,         \* exec: local stdin has emitted 'end'
    sent,               \* exec: what was written to the socket, one entry per write
    frames,             \* exec, history: the frames the server sends
    wire,               \* exec: inbound bytes that have not arrived yet
    buffer,             \* exec: the read buffer of the socket
    header,             \* exec: demuxStream's variable header
    out,                \* exec: what was written to local stdout and stderr, in order
    ended,              \* exec: the streams exec has called end() on
    cuts,               \* exec, history: where inside a frame arrivals have ended
    gConfig,            \* config: the object gConfig of the running invocation
    file,               \* config: the file ~/.cloudron.json
    env,                \* config: process.env.APPSTORE_ORIGIN of the running invocation
    phase,              \* config: "none" (no invocation runs), "loaded", "login" (request in flight)
    hasCallback,        \* config: authenticate's parameter callback is a function
    attempts,           \* config, history: login requests sent by this invocation
    authenticated,      \* config, history: runs of authenticate's callback in this invocation
    op,                 \* config, history: the last operation on the store
    installerApp,       \* installer: its parameter app
    installerOptions,   \* installer: its parameter options
    installerData       \* installer: the request it sends: url, message and data

vars ==
    <<cmd, started, post, inflight, timers, delay, cb, waitForHealthcheck, currentProgress,
      called, cbError, wrote, printed, exited, exitCode, server, polls, last, seen, flip,
      options, tty, query, lookup, req, socket, requests,
      input, stdinEnded, sent, frames, wire, buffer, header, out, ended, cuts,
      gConfig, file, env, phase, hasCallback, attempts, authenticated, op,
      installerApp, installerOptions, installerData, began>>

\* the variables of exec
execVars ==
    <<options, tty, query, lookup, req, socket, requests,
      input, stdinEnded, sent, frames, wire, buffer, header, out, ended, cuts>>

\* the variables of the config store and of login
configVars == <<gConfig, file, env, phase, hasCallback, attempts, authenticated, op>>

\* the variables of installer's request
installerVars == <<installerApp, installerOptions, installerData>>

\* the process state a callback reads and changes
State ==
    [post |-> post, inflight |-> inflight, timers |-> timers, delay |-> delay, cb |-> cb,
     waitForHealthcheck |-> waitForHealthcheck, currentProgress |-> currentProgress,
     called |-> called, cbError |-> cbError, wrote |-> <<>>, printed |-> printed,
     exited |-> exited, exitCode |-> exitCode, polls |-> polls]

Becomes(s) ==
    /\ post' = s.post
    /\ inflight' = s.inflight
    /\ timers' = s.timers
    /\ delay' = s.delay
    /\ cb' = s.cb
    /\ waitForHealthcheck' = s.waitForHealthcheck
    /\ currentProgress' = s.currentProgress
    /\ called' = s.called
    /\ cbError' = s.cbError
    /\ wrote' = s.wrote
    /\ printed' = s.printed
    /\ exited' = s.exited
    /\ exitCode' = s.exitCode
    /\ polls' = s.polls

\* the app resource right after the triggering request was accepted
InitialApp ==
    [installationState |-> "pending", installationProgress |-> Null,
     health |-> "unhealthy", runState |-> "running",
     percent |-> 0, message |-> StrVal(<<>>)]

\* no install poll answered yet
NoProgress == [type |-> "none", s |-> <<>>]

NoResponse == [transport |-> FALSE, status |-> 0, text |-> "", body |-> NoBody]

Event(kind, poller, resp) == [kind |-> kind, poller |-> poller, resp |-> resp]

\* exec not invoked
NoOptions ==
    [app |-> "none", tty |-> FALSE, isTTY |-> FALSE, cmd |-> <<>>, stdout |-> "process"]

\* null, where a buffer is expected
NoData == [null |-> TRUE, bytes |-> <<>>]

\* a buffer of bytes
Data(bytes) == [null |-> FALSE, bytes |-> bytes]

\* exec's streams before anything was read or written
StreamsUntouched ==
    /\ input = <<>>
    /\ stdinEnded = FALSE
    /\ sent = <<>>
    /\ buffer = <<>>
    /\ header = NoData
    /\ out = <<>>
    /\ ended = {}
    /\ cuts = {}

NoQuery == [cmd |-> <<>>, tty |-> FALSE]

\* app is falsy
NoApp == [exists |-> FALSE, id |-> "", location |-> "", appStoreId |-> ""]

\* installer not called
NoInstallerOptions ==
    [configure |-> FALSE, location |-> "undefined", force |-> FALSE, appStoreId |-> ""]

\* installer has sent nothing
NoInstallerData == [url |-> <<>>, message |-> "", location |-> "", force |-> FALSE]

\* installer not in use
InstallerUnused ==
    /\ installerApp = NoApp
    /\ installerOptions = NoInstallerOptions
    /\ installerData = NoInstallerData

\* the keys of the config store
Keys == {"token", "cloudron", "apiEndpoint", "appStoreOrigin"}

\* {}
EmptyObject == [k \in Keys |-> "undefined"]

\* no file ~/.cloudron.json
NoFile == [exists |-> FALSE, text |-> <<>>]

NoOp == [name |-> "none", key |-> "", value |-> ""]

\* the config store not in use
ConfigUnused ==
    /\ gConfig = EmptyObject
    /\ file = NoFile
    /\ env = "undefined"
    /\ phase = "none"
    /\ hasCallback = FALSE
    /\ attempts = 0
    /\ authenticated = 0
    /\ op = NoOp

NoRequests == [lookup |-> 0, exec |-> 0]

ExecUnused ==
    /\ options = NoOptions
    /\ tty = FALSE
    /\ query = NoQuery
    /\ lookup = "none"
    /\ req = "none"
    /\ socket = "none"
    /\ requests = NoRequests
    /\ frames = <<>>
    /\ wire = <<>>
    /\ StreamsUntouched

\* a process that has not run anything yet
FreshProcess ==
    /\ started = FALSE
    /\ post = "none"
    /\ inflight = [p \in Pollers |-> 0]
    /\ timers = [p \in Pollers |-> 0]
    /\ delay = [p \in Pollers |-> 0]
    /\ cb = [p \in Pollers |-> NoCallback]
    /\ waitForHealthcheck = FALSE
    /\ currentProgress = StrVal(<<>>)
    /\ called = [c \in Callbacks |-> 0]
    /\ cbError = [c \in Callbacks |-> NoError]
    /\ wrote = <<>>
    /\ printed = {}
    /\ exited = FALSE
    /\ exitCode = 0
    /\ server = InitialApp
    /\ began = FALSE
    /\ polls = 0
    /\ last = Event("none", "", NoResponse)
    /\ seen = NoProgress
    /\ flip = FALSE

Init ==
    /\ cmd \in Commands
    /\ ExecUnused
    /\ ConfigUnused
    /\ InstallerUnused
    /\ FreshProcess

(***************************************************************************)
(* Primitives.                                                             *)
(***************************************************************************)
\* process.stdout.write / console.log / console.error of one text
write(s, text) == [s EXCEPT !.wrote = Append(@, text), !.printed = @ \cup {text}]

\* helper.exit(text): print the text, if any, and end the process; the exit code
\* is 1 when a text or error is given and 0 otherwise.  With the process its
\* sockets and timers are gone.
exit(s, text) ==
    [(IF text = <<>> THEN s ELSE write(s, text)) EXCEPT
        !.exited = TRUE,
        !.exitCode = IF text = <<>> THEN 0 ELSE 1,
        !.post = "none",
        !.inflight = [p \in Pollers |-> 0],
        !.timers = [p \in Pollers |-> 0]]

\* an exception no one catches: Node prints it and the process ends with exit
\* code 1
uncaughtException(s, text) ==
    [write(s, text) EXCEPT
        !.exited = TRUE,
        !.exitCode = 1,
        !.post = "none",
        !.inflight = [p \in Pollers |-> 0],
        !.timers = [p \in Pollers |-> 0]]

\* setTimeout(checkStatus, ms) of poller p
setTimeout(s, p, ms) == [s EXCEPT !.timers[p] = @ + 1, !.delay[p] = ms]

\* helper.superagentEnd(GET status resource, callback) of poller p
superagentEnd(s, p) ==
    [s EXCEPT !.inflight[p] = @ + 1,
              !.polls = IF @ < MaxPolls THEN @ + 1 ELSE @]

\* superagent.post(...).end(callback)
sendPost(s, which) == [s EXCEPT !.post = which]

(***************************************************************************)
(* Starting a wait.                                                        *)
(***************************************************************************)
\* a variant that forgets to schedule the first check
waitForHealthyNeverChecks(s, callback) ==
    write([s EXCEPT !.cb["waitForHealthy"] = callback],
          <<"\n => ", "Wait for health check">>)

\* a variant whose first check happens at once
waitForHealthyChecksAtOnce(s, callback) ==
    superagentEnd(write([s EXCEPT !.cb["waitForHealthy"] = callback],
                        <<"\n => ", "Wait for health check">>),
                  "waitForHealthy")

\* waitForHealthy(appId, callback): the first check happens after one interval
waitForHealthy(s, callback) ==
    setTimeout(write([s EXCEPT !.cb["waitForHealthy"] = callback],
                     <<"\n => ", "Wait for health check">>),
               "waitForHealthy", PollInterval)

\* waitForFinishInstallation(appId, waitForHealthcheck, callback): checks at once
waitForFinishInstallation(s, healthcheck, callback) ==
    superagentEnd([s EXCEPT !.cb["waitForFinishInstallation"] = callback,
                            !.waitForHealthcheck = healthcheck,
                            !.currentProgress = StrVal(<<>>)],
                  "waitForFinishInstallation")

\* waitForBackupCompletion(callback): checks at once
waitForBackupCompletion(s, callback) ==
    superagentEnd(write([s EXCEPT !.cb["waitForBackupCompletion"] = callback],
                        <<"Waiting for box backup to finish...">>),
                  "waitForBackupCompletion")

\* waitForBackupFinish(): checks at once
waitForBackupFinish(s) ==
    superagentEnd(write(s, <<"Waiting for Cloudron backup to finish...">>),
                  "waitForBackupFinish")

(***************************************************************************)
(* The completion callbacks the commands pass to the waits.                *)
(***************************************************************************)
installerCallback(s, error) ==
    IF error.set /\ indexOf(error.message.s, "Container command could not be invoked.") > 0
    THEN exit(write(s, <<"\n\nApp installation error: ">> \o error.message.s),
              <<"Is your CMD from the Dockerfile executable?">>)
    ELSE IF error.set
    THEN exit(s, <<"\n\nApp installation error: ">> \o error.message.s)
    ELSE exit(write(s, <<"\n\nApp is ", cmd.message, ".">>), <<>>)

backupCallback(s, error) ==
    IF error.set THEN exit(s, <<"\n\nApp backup error: ">> \o error.message.s)
    ELSE exit(write(s, <<"\n\nApp is backed up">>), <<>>)

restoreCallback(s, error) ==
    IF error.set THEN exit(s, <<"\n\nApp restore error: ">> \o error.message.s)
    ELSE exit(write(s, <<"\n\nApp is restored">>), <<>>)

cloneCallback(s, error) ==
    IF error.set THEN exit(s, <<"\n\nApp clone error: ">> \o error.message.s)
    ELSE exit(write(s, <<"\n\nApp is cloned">>), <<>>)

\* a variant that goes from the stop to the health wait
restartStoppedSkipsStart(s, error) ==
    IF error.set THEN exit(s, error.message.s)
    ELSE waitForHealthy(s, "restartHealthy")

\* restart: stopApp's callback calls startApp, which sends the start POST
restartStopped(s, error) ==
    IF error.set THEN exit(s, error.message.s)
    ELSE sendPost(s, "start")

\* restart: startApp's callback starts the health wait
restartStarted(s, error) ==
    IF error.set THEN exit(s, error.message.s)
    ELSE waitForHealthy(s, "restartHealthy")

restartHealthy(s, error) ==
    IF error.set THEN exit(s, <<"\n\nApp restart error: ">> \o error.message.s)
    ELSE exit(write(s, <<"\n\nApp restarted">>), <<>>)

\* callback(error): the closure's callback parameter is invoked
callback(s, id, error) ==
    LET s1 == [s EXCEPT !.called[id] = @ + 1, !.cbError[id] = error]
    IN  CASE id = "installer" -> installerCallback(s1, error)
          [] id = "backup" -> backupCallback(s1, error)
          [] id = "restore" -> restoreCallback(s1, error)
          [] id = "clone" -> cloneCallback(s1, error)
          [] id = "restartStopped" -> restartStopped(s1, error)
          [] id = "restartStarted" -> restartStarted(s1, error)
          [] id = "restartHealthy" -> restartHealthy(s1, error)
          [] OTHER -> s1

(***************************************************************************)
(* The response callbacks of the polling loops: s is the process state, r  *)
(* the answer to the status GET.                                           *)
(***************************************************************************)
\* a variant that takes any 200 answer for a healthy app
healthyBodyAnyAnswer(s, r) ==
    callback(s, s.cb["waitForHealthy"], NoError)

\* a variant that fails when the answer carries the installationState 'error'
healthyBodyChecksState(s, r) ==
    IF r.body.installationState = "error"
    THEN callback(s, s.cb["waitForHealthy"], NewError(r.body.installationProgress))
    ELSE IF r.body.health = "healthy"
    THEN callback(s, s.cb["waitForHealthy"], NoError)
    ELSE setTimeout(write(s, <<".">>), "waitForHealthy", PollInterval)

\* waitForHealthy.checkStatus, after the transport and status checks
healthyBody(s, r) ==
    IF r.body.health = "healthy"
    THEN callback(s, s.cb["waitForHealthy"], NoError)
    ELSE setTimeout(write(s, <<".">>), "waitForHealthy", PollInterval)

\* waitForHealthy.checkStatus
healthyStatus(s, r) ==
    LET error == RequestError(r)
    IN  IF error.set /\ ~error.response
        THEN callback(s, s.cb["waitForHealthy"], error)
        ELSE IF r.status # 200
        THEN callback(s, s.cb["waitForHealthy"],
                      NewError(format("Failed to get app.", r.status, r.text)))
        ELSE healthyBody(s, r)

\* a variant that prints a tick for every unchanged progress value
installationProgressLineAlwaysTicks(s, progress) ==
    IF s.currentProgress = progress
    THEN write(s, <<".">>)
    ELSE IF progress # Null
    THEN LET tmp == split(progress.s)
             installProgressLabel == IF Len(tmp) = 2 THEN tmp[2] ELSE tmp[1]
         IN  write(s, <<"\n => ">> \o trim(installProgressLabel) \o <<" ">>)
    ELSE write(s, <<"\n => ", "Waiting to start installation ">>)

\* waitForFinishInstallation.checkStatus: the progress line of a non-final
\* poll; undefined is not null, and undefined.split throws
installationProgressLine(s, progress) ==
    IF s.currentProgress = progress
    THEN IF Truthy(s.currentProgress) /\ indexOf(s.currentProgress.s, "Creating image") = -1
         THEN write(s, <<".">>)
         ELSE s
    ELSE IF progress = Absent
    THEN uncaughtException(s, <<"TypeError: Cannot read property 'split' of undefined">>)
    ELSE IF progress # Null
    THEN LET tmp == split(progress.s)
             installProgressLabel == IF Len(tmp) = 2 THEN tmp[2] ELSE tmp[1]
         IN  write(s, <<"\n => ">> \o trim(installProgressLabel) \o <<" ">>)
    ELSE write(s, <<"\n => ", "Waiting to start installation ">>)

\* a variant that starts the health wait whether or not it was asked for
installationInstalledAlwaysWaits(s) ==
    waitForHealthy(s, s.cb["waitForFinishInstallation"])

\* a variant that hands over to the health wait and polls on itself
installationInstalledKeepsPolling(s) ==
    setTimeout(IF s.waitForHealthcheck
               THEN waitForHealthy(s, s.cb["waitForFinishInstallation"])
               ELSE callback(s, s.cb["waitForFinishInstallation"], NoError),
               "waitForFinishInstallation", PollInterval)

\* waitForFinishInstallation.checkStatus: installationState is 'installed'
installationInstalled(s) ==
    IF s.waitForHealthcheck
    THEN waitForHealthy(s, s.cb["waitForFinishInstallation"])
    ELSE callback(s, s.cb["waitForFinishInstallation"], NoError)

\* a variant that reports the response text instead of the progress text
installationFailedWithText(s, r) ==
    callback(s, s.cb["waitForFinishInstallation"], NewError(StrVal(<<r.text>>)))

\* waitForFinishInstallation.checkStatus: installationState is 'error'
installationFailed(s, r) ==
    callback(s, s.cb["waitForFinishInstallation"], NewError(r.body.installationProgress))

\* a variant with a retry limit: it gives up at the second poll
installationPendingGivesUp(s, r) ==
    IF s.polls >= 2
    THEN callback(s, s.cb["waitForFinishInstallation"], NewError(StrVal(<<"timeout">>)))
    ELSE setTimeout(
            [installationProgressLine(s, r.body.installationProgress)
                EXCEPT !.currentProgress = r.body.installationProgress],
            "waitForFinishInstallation", PollInterval)

\* a variant that does not remember the progress it printed
installationPendingForgetsProgress(s, r) ==
    setTimeout(installationProgressLine(s, r.body.installationProgress),
               "waitForFinishInstallation", PollInterval)

\* waitForFinishInstallation.checkStatus: any other installationState
installationPending(s, r) ==
    LET line == installationProgressLine(s, r.body.installationProgress)
    IN  IF line.exited THEN line
        ELSE setTimeout([line EXCEPT !.currentProgress = r.body.installationProgress],
                        "waitForFinishInstallation", PollInterval)

\* waitForFinishInstallation.checkStatus
installationStatus(s, r) ==
    LET error == RequestError(r)
    IN  IF error.set /\ ~error.response
        THEN callback(s, s.cb["waitForFinishInstallation"], error)
        ELSE IF r.status # 200
        THEN callback(s, s.cb["waitForFinishInstallation"],
                      NewError(format("Failed to get app.", r.status, r.text)))
        ELSE IF r.body.installationState = "installed"
        THEN installationInstalled(s)
        ELSE IF r.body.installationState = "error"
        THEN installationFailed(s, r)
        ELSE installationPending(s, r)

\* a variant that takes 100 percent for success without reading the message
backupCompletionBodyIgnoresMessage(s, r) ==
    IF r.body.percent >= 100
    THEN callback(s, s.cb["waitForBackupCompletion"], NoError)
    ELSE setTimeout(write(s, <<".">>), "waitForBackupCompletion", PollInterval)

\* waitForBackupCompletion.checkStatus, after the transport and status checks
backupCompletionBody(s, r) ==
    IF r.body.percent >= 100
    THEN IF Truthy(r.body.message)
         THEN callback(s, s.cb["waitForBackupCompletion"],
                       NewError(StrVal(<<"Backup failed: ">> \o r.body.message.s)))
         ELSE callback(s, s.cb["waitForBackupCompletion"], NoError)
    ELSE setTimeout(write(s, <<".">>), "waitForBackupCompletion", PollInterval)

\* waitForBackupCompletion.checkStatus
backupCompletionStatus(s, r) ==
    LET error == RequestError(r)
    IN  IF error.set /\ ~error.response
        THEN callback(s, s.cb["waitForBackupCompletion"], error)
        ELSE IF r.status # 200
        THEN callback(s, s.cb["waitForBackupCompletion"],
                      NewError(format("Failed to get backup progress.", r.status, r.text)))
        ELSE backupCompletionBody(s, r)

\* a variant without the return in front of callback(null)
stopStatusFallsThrough(s, r) ==
    LET error == RequestError(r)
    IN  IF error.set /\ ~error.response
        THEN exit(s, error.message.s)
        ELSE IF r.body.runState = "stopped"
        THEN setTimeout(write(callback(s, "restartStopped", NoError), <<".">>),
                        "stopApp", PollInterval)
        ELSE setTimeout(write(s, <<".">>), "stopApp", PollInterval)

\* stopApp's waitForFinish
stopStatus(s, r) ==
    LET error == RequestError(r)
    IN  IF error.set /\ ~error.response
        THEN exit(s, error.message.s)
        ELSE IF r.body.runState = "stopped"
        THEN callback(s, "restartStopped", NoError)
        ELSE setTimeout(write(s, <<".">>), "stopApp", PollInterval)

\* startApp's waitForFinish
startStatus(s, r) ==
    LET error == RequestError(r)
    IN  IF error.set /\ ~error.response
        THEN exit(s, error.message.s)
        ELSE IF r.body.runState = "running"
        THEN callback(s, "restartStarted", NoError)
        ELSE setTimeout(write(s, <<".">>), "startApp", PollInterval)

\* a variant that tries the GET again after a transport error
uninstallStatusRetries(s, r) ==
    LET error == RequestError(r)
    IN  IF error.set /\ ~error.response
        THEN superagentEnd(s, "uninstall")
        ELSE IF r.status = 404
        THEN exit(write(s, <<"\n\nApp ", "successfully uninstalled.">>), <<>>)
        ELSE setTimeout(write(s, <<".">>), "uninstall", PollInterval)

\* a variant that takes every answer other than 200 for the app being gone
uninstallStatusGoneUnlessOk(s, r) ==
    LET error == RequestError(r)
    IN  IF error.set /\ ~error.response
        THEN exit(s, error.message.s)
        ELSE IF r.status # 200
        THEN exit(write(s, <<"\n\nApp ", "successfully uninstalled.">>), <<>>)
        ELSE setTimeout(write(s, <<".">>), "uninstall", PollInterval)

\* uninstall's waitForFinish
uninstallStatus(s, r) ==
    LET error == RequestError(r)
    IN  IF error.set /\ ~error.response
        THEN exit(s, error.message.s)
        ELSE IF r.status = 404
        THEN exit(write(s, <<"\n\nApp ", "successfully uninstalled.">>), <<>>)
        ELSE setTimeout(write(s, <<".">>), "uninstall", PollInterval)

\* waitForBackupFinish.checkStatus (machine backup)
backupFinishStatus(s, r) ==
    LET error == RequestError(r)
    IN  IF error.set
        THEN exit(s, error.message.s)
        ELSE IF r.status # 200
        THEN exit(s, format("Failed to get backup progress.", r.status, r.text).s)
        ELSE IF r.body.percent >= 100
        THEN IF Truthy(r.body.message)
             THEN exit(s, <<"Backup failed: ">> \o r.body.message.s)
             ELSE exit(write(s, <<"\n\nCloudron is backed up">>), <<>>)
        ELSE setTimeout(write(s, <<".">>), "waitForBackupFinish", PollInterval)

\* createBackup's checkStatus (ec2 box backup)
createBackupStatus(s, r) ==
    LET error == RequestError(r)
    IN  IF error.set
        THEN exit(s, error.message.s)
        ELSE IF r.status # 200
        THEN exit(s, format("Failed to get backup progress.", r.status, r.text).s)
        ELSE IF r.body.percent >= 100
        THEN IF Truthy(r.body.message)
             THEN exit(s, <<"Backup failed: ">> \o r.body.message.s)
             ELSE exit(write(s, <<"\n\nBox is backed up">>), <<>>)
        ELSE setTimeout(write(s, <<".">>), "createBackup", PollInterval)

(***************************************************************************)
(* The response callbacks of the triggering POSTs.                         *)
(***************************************************************************)
\* installer: POST install / configure / update
installerPosted(s, r) ==
    LET error == RequestError(r)
    IN  IF error.set /\ ~error.response THEN exit(s, error.message.s)
        ELSE IF r.status = 404
        THEN exit(s, <<"Failed to install app. No such app in the appstore.">>)
        ELSE IF r.status = 409
        THEN exit(s, <<"Failed to install app. The location is already used.">>)
        ELSE IF r.status = 403
        THEN exit(s, <<"Failed to install app. Admin privileges are required.">>)
        ELSE IF r.status # 202
        THEN exit(s, <<"Failed to install app.", ToString(r.status)>>)
        ELSE waitForFinishInstallation(
                write(s, <<"App is being ", cmd.message, " with id:">>),
                cmd.wait, "installer")

\* createBackup (app): POST backup
backupPosted(s, r) ==
    LET error == RequestError(r)
    IN  IF error.set /\ ~error.response THEN exit(s, error.message.s)
        ELSE IF r.status # 202
        THEN exit(s, format("Failed to backup app.", r.status, r.text).s)
        ELSE waitForFinishInstallation(s, TRUE, "backup")

\* restore: POST restore
restorePosted(s, r) ==
    LET error == RequestError(r)
    IN  IF error.set /\ ~error.response THEN exit(s, error.message.s)
        ELSE IF r.status # 202
        THEN exit(s, format("Failed to restore app.", r.status, r.text).s)
        ELSE waitForFinishInstallation(s, TRUE, "restore")

\* a variant of clone's answer that takes every 2xx status for acceptance
clonePostedAcceptsAny2xx(s, r) ==
    LET error == RequestError(r)
    IN  IF error.set /\ ~error.response THEN exit(s, error.message.s)
        ELSE IF r.status \notin {201, 202}
        THEN exit(s, format("Failed to clone app.", r.status, r.text).s)
        ELSE waitForFinishInstallation(write(s, <<"App cloned as id ">>), TRUE, "clone")

\* clone: POST clone
clonePosted(s, r) ==
    LET error == RequestError(r)
    IN  IF error.set /\ ~error.response THEN exit(s, error.message.s)
        ELSE IF r.status # 201
        THEN exit(s, format("Failed to clone app.", r.status, r.text).s)
        ELSE waitForFinishInstallation(write(s, <<"App cloned as id ">>), TRUE, "clone")

\* uninstall: POST uninstall
uninstallPosted(s, r) ==
    LET error == RequestError(r)
    IN  IF error.set /\ ~error.response THEN exit(s, error.message.s)
        ELSE IF r.status # 202
        THEN exit(s, format("Failed to uninstall app.", r.status, r.text).s)
        ELSE superagentEnd(write(s, <<"\n => ", "Waiting for app to be uninstalled ">>),
                           "uninstall")

\* stopApp: POST stop
stopPosted(s, r) ==
    LET error == RequestError(r)
    IN  IF error.set /\ ~error.response THEN exit(s, error.message.s)
        ELSE IF r.status # 202
        THEN exit(s, format("Failed to stop app.", r.status, r.text).s)
        ELSE superagentEnd(write(s, <<"\n => ", "Waiting for app to be stopped ">>),
                           "stopApp")

\* startApp: POST start
startPosted(s, r) ==
    LET error == RequestError(r)
    IN  IF error.set /\ ~error.response THEN exit(s, error.message.s)
        ELSE IF r.status # 202
        THEN exit(s, format("Failed to start app.", r.status, r.text).s)
        ELSE superagentEnd(write(s, <<"\n => ", "Waiting for app to be started ">>),
                           "startApp")

\* machine createBackup: POST backups
machineBackupPosted(s, r) ==
    LET error == RequestError(r)
    IN  IF error.set THEN exit(s, error.message.s)
        ELSE IF r.status # 202
        THEN exit(s, format("Failed to backup Cloudron.", r.status, r.text).s)
        ELSE waitForBackupFinish(s)

\* ec2 createBackup: POST backups
ec2BackupPosted(s, r) ==
    LET error == RequestError(r)
    IN  IF error.set THEN exit(s, error.message.s)
        ELSE IF r.status # 202
        THEN exit(s, format("Failed to backup box.", r.status, r.text).s)
        ELSE superagentEnd(write(s, <<"Waiting for box backup to finish...">>),
                           "createBackup")

(***************************************************************************)
(* Actions: one per callback of the event loop.                            *)
(***************************************************************************)
Step(kind, poller, resp) ==
    /\ last' = Event(kind, poller, resp)
    /\ seen' = IF kind = "response" /\ poller = "waitForFinishInstallation"
                  /\ ~resp.transport /\ resp.status = 200
                  /\ resp.body.installationState \notin {"installed", "error"}
               THEN resp.body.installationProgress
               ELSE seen
    /\ flip' = ~flip
    /\ started' = TRUE
    /\ cmd' = cmd
    /\ server' = server
    /\ began' = began
    /\ UNCHANGED execVars
    /\ UNCHANGED configVars
    /\ UNCHANGED installerVars

\* the command's entry point, after the app lookup: send the triggering POST
\* (waitForBackupCompletion has no trigger of its own)
Run ==
    /\ ~started /\ ~exited
    /\ Becomes(CASE cmd.name = "restart" -> sendPost(State, "stop")
                 [] cmd.name = "boxBackup" -> waitForBackupCompletion(State, "boxBackup")
                 [] OTHER -> sendPost(State, "submit"))
    /\ Step("run", "", NoResponse)

\* the answer to the triggering POST arrives; it is one of `responses`
PostedFrom(responses) ==
    /\ ~exited /\ post # "none"
    /\ \E r \in responses :
        LET s == [State EXCEPT !.post = "none"]
        IN  /\ Becomes(CASE post = "stop" -> stopPosted(s, r)
                         [] post = "start" -> startPosted(s, r)
                         [] cmd.name = "install" -> installerPosted(s, r)
                         [] cmd.name = "backup" -> backupPosted(s, r)
                         [] cmd.name = "restore" -> restorePosted(s, r)
                         [] cmd.name = "clone" -> clonePosted(s, r)
                         [] cmd.name = "uninstall" -> uninstallPosted(s, r)
                         [] cmd.name = "machineBackup" -> machineBackupPosted(s, r)
                         [] OTHER -> ec2BackupPosted(s, r))
            /\ Step("post", post, r)

Posted == PostedFrom(PostResponses)

\* a poll timer fires: checkStatus issues the next status GET
Tick ==
    /\ ~exited
    /\ \E p \in Pollers :
        /\ timers[p] > 0
        /\ Becomes(superagentEnd([State EXCEPT !.timers[p] = @ - 1], p))
        /\ Step("timer", p, NoResponse)

\* the answer to waitForHealthy's status GET arrives; it is one of `responses`
HealthyAnswerFrom(responses) ==
    /\ ~exited /\ inflight["waitForHealthy"] > 0
    /\ \E r \in responses :
        /\ Becomes(healthyStatus([State EXCEPT !.inflight["waitForHealthy"] = @ - 1], r))
        /\ Step("response", "waitForHealthy", r)

HealthyAnswer == HealthyAnswerFrom(AppResponses)

\* the answer to waitForFinishInstallation's status GET arrives; it is one of
\* `responses`
InstallationAnswerFrom(responses) ==
    /\ ~exited /\ inflight["waitForFinishInstallation"] > 0
    /\ \E r \in responses :
        /\ Becomes(installationStatus([State EXCEPT !.inflight["waitForFinishInstallation"] = @ - 1], r))
        /\ Step("response", "waitForFinishInstallation", r)

InstallationAnswer == InstallationAnswerFrom(AppResponses \cup IncompleteResponses)

\* the answer to waitForBackupCompletion's progress GET arrives
BackupCompletionAnswer ==
    /\ ~exited /\ inflight["waitForBackupCompletion"] > 0
    /\ \E r \in ProgressResponses :
        /\ Becomes(backupCompletionStatus([State EXCEPT !.inflight["waitForBackupCompletion"] = @ - 1], r))
        /\ Step("response", "waitForBackupCompletion", r)

\* the answer to stopApp's status GET arrives
StopAnswer ==
    /\ ~exited /\ inflight["stopApp"] > 0
    /\ \E r \in AppResponses :
        /\ Becomes(stopStatus([State EXCEPT !.inflight["stopApp"] = @ - 1], r))
        /\ Step("response", "stopApp", r)

\* the answer to startApp's status GET arrives
StartAnswer ==
    /\ ~exited /\ inflight["startApp"] > 0
    /\ \E r \in AppResponses :
        /\ Becomes(startStatus([State EXCEPT !.inflight["startApp"] = @ - 1], r))
        /\ Step("response", "startApp", r)

\* the answer to uninstall's status GET arrives
UninstallAnswer ==
    /\ ~exited /\ inflight["uninstall"] > 0
    /\ \E r \in AppResponses :
        /\ Becomes(uninstallStatus([State EXCEPT !.inflight["uninstall"] = @ - 1], r))
        /\ Step("response", "uninstall", r)

\* the answer to waitForBackupFinish's progress GET arrives
BackupFinishAnswer ==
    /\ ~exited /\ inflight["waitForBackupFinish"] > 0
    /\ \E r \in ProgressResponses :
        /\ Becomes(backupFinishStatus([State EXCEPT !.inflight["waitForBackupFinish"] = @ - 1], r))
        /\ Step("response", "waitForBackupFinish", r)

\* the answer to createBackup's progress GET arrives
CreateBackupAnswer ==
    /\ ~exited /\ inflight["createBackup"] > 0
    /\ \E r \in ProgressResponses :
        /\ Becomes(createBackupStatus([State EXCEPT !.inflight["createBackup"] = @ - 1], r))
        /\ Step("response", "createBackup", r)

Next ==
    \/ Run
    \/ Posted
    \/ Tick
    \/ HealthyAnswer
    \/ InstallationAnswer
    \/ BackupCompletionAnswer
    \/ StopAnswer
    \/ StartAnswer
    \/ UninstallAnswer
    \/ BackupFinishAnswer
    \/ CreateBackupAnswer

Spec == Init /\ [][Next]_vars

(***************************************************************************)
(* Vocabulary of the properties.                                           *)
(***************************************************************************)
\* this step is the response callback of poller p
Answered(p) == last'.kind = "response" /\ last'.poller = p

\* the answer this step handled
answer == last'.resp

\* a 200 answer
Ok(r) == ~r.transport /\ r.status = 200

\* after this step poller p has no GET in flight and no timer pending
Quiet(p) == inflight'[p] = 0 /\ timers'[p] = 0

AllQuiet == \A p \in Pollers : Quiet(p)

\* the tokens of a text
Tokens(text) == {text[i] : i \in 1..Len(text)}

\* this step wrote a text that holds every token of `tokens`
WroteAll(tokens) == \E i \in 1..Len(wrote') : tokens \subseteq Tokens(wrote'[i])

InstallCallbacks == {"installer", "backup", "restore", "clone"}

\* C1: install wait, success.  When waitForFinishInstallation, started without
\* the health check, handles a 200 answer whose installationState is
\* 'installed', its callback is invoked (for the first time) without an error,
\* no failure was reported before, and no status GET or timer remains or is
\* issued: the command ends with exit code 0.
C1_InstallSuccess ==
    [][ (/\ Answered("waitForFinishInstallation")
         /\ Ok(answer)
         /\ answer.body.installationState = "installed"
         /\ ~waitForHealthcheck)
        => (/\ cb["waitForFinishInstallation"] = "installer"
            /\ called["installer"] = 0
            /\ ~cbError["installer"].set
            /\ called'["installer"] = 1
            /\ ~cbError'["installer"].set
            /\ AllQuiet
            /\ polls' = polls
            /\ exited' /\ exitCode' = 0) ]_vars

\* C1 witness: pending, pending, installed
C1_Witness ==
    /\ last.kind = "response" /\ last.poller = "waitForFinishInstallation"
    /\ last.resp.body.installationState = "installed"
    /\ ~waitForHealthcheck
    /\ polls = 3
    /\ called["installer"] = 1 /\ ~cbError["installer"].set
    /\ exited /\ exitCode = 0

\* C2: install wait, failure.  When waitForFinishInstallation handles a 200
\* answer whose installationState is 'error', its callback is invoked (for the
\* first time) with an error whose message is String(installationProgress),
\* which is the server's text itself whenever the server sent a text; nothing
\* is polled afterwards and the command ends with exit code 1.
C2_InstallFailure ==
    [][ (/\ Answered("waitForFinishInstallation")
         /\ Ok(answer)
         /\ answer.body.installationState = "error")
        => LET c == cb["waitForFinishInstallation"]
           IN  /\ c \in InstallCallbacks
               /\ called[c] = 0
               /\ called'[c] = 1
               /\ cbError'[c].set
               /\ cbError'[c].message = ToStr(answer.body.installationProgress)
               /\ (answer.body.installationProgress.type = "string"
                     => cbError'[c].message = answer.body.installationProgress)
               /\ AllQuiet
               /\ polls' = polls
               /\ exited' /\ exitCode' = 1 ]_vars

\* C2 witness: pending, then error with the text "boom"
C2_Witness ==
    /\ last.kind = "response" /\ last.poller = "waitForFinishInstallation"
    /\ last.resp.body.installationState = "error"
    /\ last.resp.body.installationProgress = StrVal(<<"boom">>)
    /\ polls = 2
    /\ called["installer"] = 1
    /\ cbError["installer"].message = StrVal(<<"boom">>)
    /\ exited /\ exitCode = 1

\* poller p has given its result: the process has exited, the callback it was
\* given has been invoked, or (the install wait) it has handed over to the
\* health wait
Finished(p) ==
    \/ exited
    \/ cb[p] # NoCallback /\ called[cb[p]] >= 1
    \/ p = "stopApp" /\ called["restartStopped"] >= 1
    \/ p = "startApp" /\ called["restartStarted"] >= 1
    \/ p = "waitForFinishInstallation" /\ cb["waitForHealthy"] # NoCallback

\* C3: every poller stops exactly once.  No completion callback is invoked
\* more than once, and once a poller has given its result (callback or exit)
\* it has no status GET in flight and no poll timer pending.
C3_StopsOnce ==
    /\ \A c \in Callbacks : called[c] <= 1
    /\ \A p \in Pollers : Finished(p) => inflight[p] = 0 /\ timers[p] = 0

\* C3 witness: restart has stopped and started the app and the process lives on
C3_Witness ==
    /\ cmd.name = "restart"
    /\ called["restartStopped"] = 1 /\ called["restartStarted"] = 1
    /\ ~exited
    /\ inflight["waitForHealthy"] = 1
    /\ polls = MaxPolls

\* an answer with a 4xx or 5xx status
NonSuccess(r) == ~r.transport /\ r.status >= 400

\* this step reported an error that names the status code and the body text of
\* the answer
ReportedStatus(p, r) ==
    \/ exited' /\ exitCode' = 1 /\ WroteAll({ToString(r.status), r.text})
    \/ /\ p = "waitForBackupCompletion"
       /\ cbError'["boxBackup"].set
       /\ {ToString(r.status), r.text} \subseteq Tokens(cbError'["boxBackup"].message.s)

\* C4: at every poller, an answer with a non-success status that is not the
\* operation's completion signal (404 for uninstall) stops the polling at once
\* with an error that holds the status code and the body text.
C4_NonSuccessStops ==
    [][ \A p \in Pollers :
          (/\ Answered(p)
           /\ NonSuccess(answer)
           /\ ~(p = "uninstall" /\ answer.status = 404))
          => AllQuiet /\ ReportedStatus(p, answer) ]_vars

\* C5: in every polling loop an answer that is a transport error (no HTTP
\* response) ends the operation in that very step with that error: the GET is
\* not issued again, no timer is set, and the error is printed with exit code
\* 1 (or handed to the callback of waitForBackupCompletion).
C5_TransportErrorEnds ==
    [][ \A p \in Pollers :
          (Answered(p) /\ answer.transport)
          => /\ AllQuiet
             /\ post' = "none"
             /\ polls' = polls
             /\ \/ exited' /\ exitCode' = 1
                   /\ WroteAll(Tokens(RequestError(answer).message.s))
                \/ /\ p = "waitForBackupCompletion"
                   /\ called'["boxBackup"] = 1
                   /\ cbError'["boxBackup"] = RequestError(answer) ]_vars

\* C5 witness: the second poll of a command fails on the transport
C5_Witness ==
    /\ last.kind = "response" /\ last.resp.transport
    /\ polls = 2
    /\ exited /\ exitCode = 1

\* the pollers of the box backup progress
BoxPollers == {"waitForBackupCompletion", "waitForBackupFinish", "createBackup"}

\* this step reported the backup failure the answer carries
ReportedBackupFailure(p, r) ==
    \/ /\ p = "waitForBackupCompletion"
       /\ called'["boxBackup"] = 1
       /\ cbError'["boxBackup"] = NewError(StrVal(<<"Backup failed: ">> \o r.body.message.s))
    \/ /\ p # "waitForBackupCompletion"
       /\ exited' /\ exitCode' = 1
       /\ wrote' = << <<"Backup failed: ">> \o r.body.message.s >>

\* C6 as stated: in the box backup pollers a 200 answer whose backup object
\* carries a message stops the polling and reports that message, whatever
\* backup.percent is.
C6_MessageAlwaysStops ==
    [][ \A p \in BoxPollers :
          (Answered(p) /\ Ok(answer) /\ Truthy(answer.body.message))
          => AllQuiet /\ ReportedBackupFailure(p, answer) ]_vars

\* C6 amended: in the box backup pollers backup.percent is read first.  A 200
\* answer with percent >= 100 ends the polling: with the error 'Backup failed:
\* <message>' when the backup object carries a message, with success when it
\* carries none.  A 200 answer with percent < 100 prints a tick and schedules
\* the next poll, whether or not it carries a message.
C6_PercentThenMessage ==
    [][ \A p \in BoxPollers :
          (Answered(p) /\ Ok(answer))
          => IF answer.body.percent >= 100
             THEN /\ AllQuiet
                  /\ IF Truthy(answer.body.message)
                     THEN ReportedBackupFailure(p, answer)
                     ELSE \/ p = "waitForBackupCompletion"
                             /\ called'["boxBackup"] = 1 /\ ~cbError'["boxBackup"].set
                          \/ p # "waitForBackupCompletion"
                             /\ exited' /\ exitCode' = 0
             ELSE /\ timers'[p] = 1 /\ inflight'[p] = 0
                  /\ wrote' = << <<".">> >>
                  /\ ~exited'
                  /\ called' = called ]_vars

\* C6 witness: waitForBackupCompletion reported 'disk full' at 100 percent after
\* a poll at 50 percent
C6_Witness ==
    /\ last.kind = "response" /\ last.poller = "waitForBackupCompletion"
    /\ last.resp.body.percent = 100
    /\ last.resp.body.message = StrVal(<<"disk full">>)
    /\ polls = 2
    /\ cbError["boxBackup"].message = StrVal(<<"Backup failed: ", "disk full">>)

\* the line that closes a successful command
SuccessMessages ==
    {<<"\n\nApp is ", m, ".">> : m \in {"installed", "configured", "updated"}}
    \cup {<<"\n\nApp is backed up">>, <<"\n\nApp is restored">>, <<"\n\nApp is cloned">>}

\* C7: the health wait of an install-style command is entered only in the
\* step in which waitForFinishInstallation, started with the health check,
\* handles a 200 answer whose installationState is 'installed'; it then sets
\* one timer of 1000 ms and issues no GET.  With the health check requested,
\* the closing success line is printed only in a step in which waitForHealthy
\* handles a 200 answer whose health is 'healthy'.
C7_HealthAfterInstalled ==
    [][ /\ (/\ cmd.name # "restart"
            /\ cb["waitForHealthy"] = NoCallback
            /\ cb'["waitForHealthy"] # NoCallback)
           => (/\ Answered("waitForFinishInstallation")
               /\ Ok(answer)
               /\ answer.body.installationState = "installed"
               /\ waitForHealthcheck
               /\ cb'["waitForHealthy"] = cb["waitForFinishInstallation"]
               /\ timers'["waitForHealthy"] = 1
               /\ delay'["waitForHealthy"] = PollInterval
               /\ inflight'["waitForHealthy"] = 0
               /\ Quiet("waitForFinishInstallation")
               /\ called' = called)
        /\ (waitForHealthcheck /\ (printed' \ printed) \cap SuccessMessages # {})
           => (/\ Answered("waitForHealthy")
               /\ Ok(answer)
               /\ answer.body.health = "healthy"
               /\ cb["waitForHealthy"] # NoCallback) ]_vars

\* C7 witness: a backup whose health wait polled an unhealthy app first
C7_Witness ==
    /\ cmd.name = "backup"
    /\ <<"\n\nApp is backed up">> \in printed
    /\ <<".">> \in printed
    /\ last.kind = "response" /\ last.poller = "waitForHealthy"
    /\ last.resp.body.health = "healthy"
    /\ exited /\ exitCode = 0

\* the callback the health wait was given has been invoked with an error
HealthWaitFailed ==
    /\ cb["waitForHealthy"] # NoCallback
    /\ cbError'[cb["waitForHealthy"]].set

\* C8 as stated: the health wait never ends the operation with an error.
C8_HealthNeverFails ==
    [][ Answered("waitForHealthy")
        => ~HealthWaitFailed /\ (exited' => exitCode' = 0) ]_vars

\* C8 amended: the health wait has no failure outcome as long as its polls are
\* answered with HTTP 200.  A 200 answer either carries health 'healthy',
\* and the callback is invoked without error, or it prints a tick and sets the
\* next timer, whatever installationState and runState it carries.  (A
\* transport error and a non-200 status do end the wait with an error.)
C8_HealthNoFailureOn200 ==
    [][ (Answered("waitForHealthy") /\ Ok(answer))
        => LET c == cb["waitForHealthy"]
           IN  /\ c # NoCallback
               /\ ~cbError'[c].set
               /\ IF answer.body.health = "healthy"
                  THEN called'[c] = called[c] + 1 /\ exited' /\ exitCode' = 0
                  ELSE /\ called' = called
                       /\ ~exited'
                       /\ timers'["waitForHealthy"] = 1
                       /\ inflight'["waitForHealthy"] = 0 ]_vars

\* C8 witness: the health wait polls on although the app is in state 'error'
C8_Witness ==
    /\ last.kind = "response" /\ last.poller = "waitForHealthy"
    /\ last.resp.status = 200
    /\ last.resp.body.installationState = "error"
    /\ last.resp.body.runState = "stopped"
    /\ timers["waitForHealthy"] = 1
    /\ ~exited

\* a 200 answer that leaves the operation of poller p unfinished
NonTerminal(p, r) ==
    CASE p = "waitForFinishInstallation" -> r.body.installationState \notin {"installed", "error"}
      [] p = "waitForHealthy" -> r.body.health # "healthy"
      [] p = "stopApp" -> r.body.runState # "stopped"
      [] p = "startApp" -> r.body.runState # "running"
      [] p = "uninstall" -> TRUE
      [] OTHER -> r.body.percent < 100

ServerApps ==
    [installationState : {"pending", "installed", "error"},
     installationProgress : {Null},
     health : {"healthy", "unhealthy"},
     runState : {"running"},
     percent : {0}, message : {StrVal(<<>>)}]

LiveInit ==
    /\ Init
    /\ cmd.name \in {"install", "backup"}
    /\ cmd.message \in {"installed", ""}

\* the server changes the app
ServerChanges ==
    /\ server' \in ServerApps \ {server}
    /\ began' = (began \/ (started /\ server'.installationState # server.installationState))
    /\ UNCHANGED <<cmd, started, post, inflight, timers, delay, cb, waitForHealthcheck,
                   currentProgress, called, cbError, wrote, printed, exited, exitCode,
                   polls, last, seen, flip>>
    /\ UNCHANGED execVars
    /\ UNCHANGED configVars
    /\ UNCHANGED installerVars

LivePosted == PostedFrom({HttpResponse(202, NoBody)})

LiveInstallationAnswer == InstallationAnswerFrom({HttpResponse(200, server)})

LiveHealthyAnswer == HealthyAnswerFrom({HttpResponse(200, server)})

LiveNext ==
    \/ Run
    \/ LivePosted
    \/ Tick
    \/ LiveInstallationAnswer
    \/ LiveHealthyAnswer
    \/ ServerChanges

LiveSpec ==
    /\ LiveInit
    /\ [][LiveNext]_vars
    /\ WF_vars(Run)
    /\ WF_vars(LivePosted)
    /\ WF_vars(Tick)
    /\ WF_vars(LiveInstallationAnswer)
    /\ WF_vars(LiveHealthyAnswer)

\* the health check is requested: by --wait for install, always for backup
HealthcheckRequested == cmd.name # "install" \/ cmd.wait

\* the callback given to the install wait
WaitCallback == IF cmd.name = "install" THEN "installer" ELSE cmd.name

Succeeded == called[WaitCallback] = 1 /\ ~cbError[WaitCallback].set

Failed == called[WaitCallback] = 1 /\ cbError[WaitCallback].set

ServerInstalled ==
    /\ server.installationState = "installed"
    /\ HealthcheckRequested => server.health = "healthy"

ServerError == server.installationState = "error"

\* no callback yet and the process is running
StillWaiting == ~exited /\ called[WaitCallback] = 0

\* no callback yet and 'installed' has not been observed
InstallWaiting == StillWaiting /\ cb["waitForHealthy"] = NoCallback

Announcement(p) ==
    CASE p = "waitForBackupFinish" -> <<"Waiting for Cloudron backup to finish...">>
      [] OTHER -> <<"Waiting for box backup to finish...">>

\* this step started the wait p: its closure captured the callback, or (the
\* box backup waits of the machine commands, which take none) it announced
\* itself
Starts(p) ==
    IF p \in {"waitForBackupFinish", "createBackup"}
    THEN /\ last'.kind = "post"
         /\ cmd.name = (IF p = "createBackup" THEN "ec2Backup" ELSE "machineBackup")
         /\ wrote' = <<Announcement(p)>>
    ELSE cb[p] = NoCallback /\ cb'[p] # NoCallback

\* after this step the first GET of p is in flight and no timer is pending
ChecksAtOnce(p) == inflight'[p] = 1 /\ timers'[p] = 0

\* after this step no GET of p is in flight and one timer of one interval is
\* pending
ChecksAfterInterval(p) ==
    inflight'[p] = 0 /\ timers'[p] = 1 /\ delay'[p] = PollInterval

\* C11 as stated: waitForFinishInstallation issues its first status GET in the
\* step that starts it; the health wait and the box backup waits issue none
\* when started and set a timer of 1000 ms for the first check.
C11_BackupWaitsOneInterval ==
    [][ /\ Starts("waitForFinishInstallation") => ChecksAtOnce("waitForFinishInstallation")
        /\ \A p \in {"waitForHealthy"} \cup BoxPollers :
             Starts(p) => ChecksAfterInterval(p) ]_vars

\* C11 amended: waitForFinishInstallation and the box backup waits
\* (waitForBackupCompletion, waitForBackupFinish, ec2 createBackup) issue their
\* first status GET in the step that starts them; only the health wait issues
\* none when started and sets a timer of 1000 ms for its first check.
C11_OnlyHealthWaitsOneInterval ==
    [][ /\ \A p \in {"waitForFinishInstallation"} \cup BoxPollers :
             Starts(p) => ChecksAtOnce(p)
        /\ Starts("waitForHealthy") => ChecksAfterInterval("waitForHealthy") ]_vars

\* C11 witness: the install wait's first GET, issued without a timer, was
\* answered 'installed' and the health wait now holds its first timer
C11_Witness ==
    /\ last.kind = "response" /\ last.poller = "waitForFinishInstallation"
    /\ polls = 1
    /\ cb["waitForHealthy"] # NoCallback
    /\ timers["waitForHealthy"] = 1 /\ delay["waitForHealthy"] = PollInterval
    /\ inflight["waitForHealthy"] = 0

(***************************************************************************)
(* Outstanding work of a command.                                          *)
(***************************************************************************)
RECURSIVE Sum(_, _)
\* the sum of f over the set S
Sum(f, S) ==
    IF S = {} THEN 0
    ELSE LET x == CHOOSE y \in S : TRUE IN f[x] + Sum(f, S \ {x})

\* requests in flight and timers pending
Outstanding ==
    Sum(inflight, Pollers) + Sum(timers, Pollers) + (IF post = "none" THEN 0 ELSE 1)

\* C12: at every moment a command has at most one outstanding item: one
\* request in flight (the trigger or a status GET) or one pending poll timer,
\* never two, across the hand-off from the install wait to the health wait and
\* across stop, start and health wait of restart as well.
C12_OneOutstanding == Outstanding <= 1

\* C12 witness: restart has stopped and started the app and the health wait,
\* after a poll, holds the only timer
C12_Witness ==
    /\ cmd.name = "restart"
    /\ called["restartStopped"] = 1 /\ called["restartStarted"] = 1
    /\ last.kind = "response" /\ last.poller = "waitForHealthy"
    /\ timers["waitForHealthy"] = 1
    /\ Outstanding = 1

(***************************************************************************)
(* The progress line of the install poller.                                *)
(***************************************************************************)
\* this step handled a non-terminal 200 answer of the install poller whose
\* installationProgress is v
InstallPoll(v) ==
    /\ Answered("waitForFinishInstallation")
    /\ Ok(answer)
    /\ NonTerminal("waitForFinishInstallation", answer)
    /\ answer.body.installationProgress = v

\* this step printed one progress label line and nothing else
PrintedLabel == Len(wrote') = 1 /\ Head(wrote'[1]) = "\n => "

\* this step printed one tick and nothing else
PrintedTick == wrote' = << <<".">> >>

\* this step printed nothing
PrintedNothing == wrote' = <<>>

\* the next poll of the install poller is scheduled
NextPollScheduled ==
    /\ timers'["waitForFinishInstallation"] = 1
    /\ delay'["waitForFinishInstallation"] = PollInterval
    /\ inflight'["waitForFinishInstallation"] = 0
    /\ ~exited' /\ called' = called

\* a text that is empty or holds 'Creating image'
TickSuppressed(v) == v.s = <<>> \/ indexOf(v.s, "Creating image") # -1

\* C13 as stated: of consecutive install polls that return the same progress
\* text, the first prints the label of the text and each following one prints
\* a tick and no label.
C13_LabelOnceThenTicks ==
    [][ \A v \in ProgressValues \ {Null} :
          InstallPoll(v) => IF seen = v THEN PrintedTick ELSE PrintedLabel ]_vars

\* C13 amended: of consecutive install polls that return the same progress
\* text, the first prints the label of the text, except that an empty text
\* returned by the very first poll prints nothing; each following one prints
\* no label: it prints a tick, unless the text is empty or holds 'Creating
\* image', and then it prints nothing.
C13_LabelOnceThenTicksUnlessSuppressed ==
    [][ \A v \in ProgressValues \ {Null} :
          InstallPoll(v)
          => IF seen = v
             THEN IF TickSuppressed(v) THEN PrintedNothing ELSE PrintedTick
             ELSE IF seen = NoProgress /\ v.s = <<>> THEN PrintedNothing
             ELSE PrintedLabel ]_vars

\* C13 witness: a third poll returned the text of the second, and a tick was
\* printed
C13_Witness ==
    /\ last.kind = "response" /\ last.poller = "waitForFinishInstallation"
    /\ last.resp.body.installationProgress = StrVal(<<"10", ",", " ", "Downloading image">>)
    /\ seen = last.resp.body.installationProgress
    /\ polls = MaxPolls
    /\ wrote = << <<".">> >>
    /\ timers["waitForFinishInstallation"] = 1

\* the progress value the install poller compares an answer with: that of the
\* previous poll, the empty text before the first poll
Previous == IF seen = NoProgress THEN StrVal(<<>>) ELSE seen

Commas(s) == {i \in 1..Len(s) : s[i] = ","}

\* the label as the rule states it: the second part of a text of two
\* comma-joined parts, the whole text otherwise
StatedLabel(s) ==
    IF Cardinality(Commas(s)) = 1
    THEN SubSeq(s, (CHOOSE i \in Commas(s) : TRUE) + 1, Len(s))
    ELSE s

\* C15: for every progress text the install poller prints as a label, the
\* label is the second part when the text has two comma-joined parts and the
\* whole text in every other case (no comma, more than one comma), blanks
\* around it removed.
C15_LabelIsSecondPartOrWhole ==
    [][ \A v \in ProgressValues \ {Null} :
          InstallPoll(v) /\ Previous # v
          => wrote' = << <<"\n => ">> \o trim(StatedLabel(v.s)) \o <<" ">> >> ]_vars

(***************************************************************************)
(* Progress values that are no text.                                       *)
(***************************************************************************)
\* C16: a non-terminal install poll whose installationProgress is null or
\* absent, before any progress text was seen, prints the label 'Waiting to
\* start installation' and no tick, does not end the wait, and schedules the
\* next poll.
C16_NullOrAbsentWaits ==
    [][ \A v \in {Null, Absent} :
          InstallPoll(v) /\ seen = NoProgress
          => /\ wrote' = << <<"\n => ", "Waiting to start installation ">> >>
             /\ NextPollScheduled ]_vars

(***************************************************************************)
(* exec: app lookup, tty precondition, upgrade request, socket handlers.   *)
(***************************************************************************)
\* the invocations of exec: --app given, or a manifest to pick the app by, or
\* neither; --tty or not; stdin a terminal or not; a command vector or none
ExecOptions ==
    [app : {"given", "manifest", "nomanifest"},
     tty : BOOLEAN,
     isTTY : BOOLEAN,
     cmd : {<<>>, <<"ls">>, <<"ls", "-l">>},
     stdout : {"process", "file"}]

ExecCommand == [name |-> "exec", wait |-> FALSE, message |-> ""]

\* status codes of the app lookup and of a response that is no upgrade
LookupStatuses == {200, 404, 500, 503}

ExecStatuses == {200, 403, 412, 500}

\* apps of the manifest's id that GET /api/v1/apps lists
AppCounts == {0, 1, 2}

LookupResponses ==
    {TransportFailure} \cup {HttpResponse(c, NoBody) : c \in LookupStatuses}

NO_APP_FOUND_ERROR_STRING ==
    <<"\nCannot find a matching app.\n",
      "Apps installed from the store are not picked automatically.\n">>

\* JSON.stringify of a vector of strings
RECURSIVE stringifyItems(_)
stringifyItems(v) ==
    IF v = <<>> THEN <<>>
    ELSE <<"\"", Head(v), "\"">>
         \o (IF Tail(v) = <<>> THEN <<>> ELSE <<",">> \o stringifyItems(Tail(v)))

stringify(v) == <<"[">> \o stringifyItems(v) \o <<"]">>

\* the process and exec's variables, as a callback reads and changes them
ExecState ==
    [proc |-> State, tty |-> tty, query |-> query, lookup |-> lookup, req |-> req,
     socket |-> socket, requests |-> requests,
     input |-> input, stdinEnded |-> stdinEnded, sent |-> sent, wire |-> wire,
     buffer |-> buffer, header |-> header, out |-> out, ended |-> ended,
     eof |-> FALSE]

ExecBecomes(x) ==
    /\ Becomes(x.proc)
    /\ tty' = x.tty
    /\ query' = x.query
    /\ lookup' = x.lookup
    /\ req' = x.req
    /\ socket' = x.socket
    /\ requests' = x.requests
    /\ input' = x.input
    /\ stdinEnded' = x.stdinEnded
    /\ sent' = x.sent
    /\ wire' = x.wire
    /\ buffer' = x.buffer
    /\ header' = x.header
    /\ out' = x.out
    /\ ended' = x.ended
    /\ options' = options
    /\ frames' = frames

\* exit(...) called inside exec
execExit(x, text) == [x EXCEPT !.proc = exit(x.proc, text)]

\* the command vector exec runs: /bin/bash for an empty one
effectiveCmd(cmdv) == IF Len(cmdv) = 0 THEN <<"/bin/bash">> ELSE cmdv

\* a variant that leaves tty as it was requested
effectiveTtyAsRequested(cmdv, t) == t

\* the tty mode exec uses: forced on for an empty command vector
effectiveTty(cmdv, t) == IF Len(cmdv) = 0 THEN TRUE ELSE t

\* https.request(...) with the query, req.on('upgrade'), req.on('error'),
\* req.end()
request(x, cmdv) ==
    [x EXCEPT !.query = [cmd |-> stringify(cmdv), tty |-> x.tty],
              !.req = "sent",
              !.requests.exec = @ + 1]

\* a variant without the tty precondition
execAppNoPrecondition(x) ==
    request([x EXCEPT !.tty = effectiveTty(options.cmd, x.tty)], effectiveCmd(options.cmd))

\* exec, once the app is known: default command, tty precondition, request
execApp(x) ==
    LET y == [x EXCEPT !.tty = effectiveTty(options.cmd, x.tty)]
    IN  IF y.tty /\ ~options.isTTY
        THEN execExit(y, <<"stdin is not tty">>)
        ELSE request(y, effectiveCmd(options.cmd))

\* exec's callback of getApp
execCallback(x, error, app) ==
    IF error.set THEN execExit(x, error.message.s)
    ELSE IF ~app THEN execExit(x, NO_APP_FOUND_ERROR_STRING)
    ELSE execApp(x)

\* getApp(appId, callback): by id, or by the manifest's id, or not at all
getApp(x) ==
    CASE options.app = "given" ->
            [x EXCEPT !.lookup = "app", !.requests.lookup = @ + 1]
      [] options.app = "manifest" ->
            [x EXCEPT !.lookup = "apps", !.requests.lookup = @ + 1]
      [] OTHER ->
            execCallback(x, NewError(StrVal(<<"No CloudronManifest.json found">>)), FALSE)

\* getApp: the answer to GET /api/v1/apps/:id
getAppAnswer(x, r) ==
    LET error == RequestError(r)
    IN  IF error.set /\ ~error.response THEN execCallback(x, error, FALSE)
        ELSE IF r.status = 503
        THEN execExit(x, <<"The Cloudron is currently updating, please retry in a bit.">>)
        ELSE IF r.status = 404
        THEN execCallback(x, NewError(StrVal(<<"App ", "not found.">>)), FALSE)
        ELSE IF r.status # 200
        THEN execCallback(x, NewError(format("Failed to get app.", r.status, r.text)), FALSE)
        ELSE execCallback(x, NoError, TRUE)

\* selectAvailableApp: the answer to GET /api/v1/apps, n apps of the manifest's
\* id; getApp turns every failure into 'no app'
selectAvailableAppAnswer(x, r, n) ==
    LET error == RequestError(r)
    IN  IF (error.set /\ ~error.response) \/ r.status # 200 \/ n = 0
        THEN execCallback(x, NoError, FALSE)
        ELSE execCallback(x, NoError, TRUE)

\* showDeveloperModeNotice()
showDeveloperModeNotice(s) ==
    write(s, <<"CLI mode is disabled. Enable it at ", "https://", "/#/settings", ".">>)

\* a variant that reports every status alike
handlerGeneric(x, status) ==
    [execExit(x, <<"Could not upgrade connection to tcp. http status:", " ", ToString(status)>>)
        EXCEPT !.req = "answered"]

\* handler(res): the answer to the exec request is a plain response
handler(x, status) ==
    LET y == [x EXCEPT !.req = "answered"]
    IN  IF status = 412
        THEN [y EXCEPT !.proc = exit(showDeveloperModeNotice(y.proc), <<>>)]
        ELSE IF status = 403
        THEN execExit(y, <<"Only admins can use this feature.">>)
        ELSE execExit(y, <<"Could not upgrade connection to tcp. http status:", " ",
                           ToString(status)>>)

\* req.on('upgrade', ...): the handlers of the socket
upgrade(x) ==
    [x EXCEPT !.req = "upgraded", !.socket = IF x.tty THEN "raw" ELSE "framed"]

\* req.on('error', exit): the request fails before the upgrade
requestError(x, e) == execExit([x EXCEPT !.req = "failed"], e)

\* a socket error makes exec connect again
socketErrorReconnects(x, e) ==
    request([x EXCEPT !.socket = "none"], effectiveCmd(options.cmd))

\* socket.on('error', exit): the socket fails after the upgrade
socketError(x, e) == execExit(x, e)

\* the socket's end ends stdin and stdout, whatever stdout is
socketEndEndsStdout(x) ==
    IF x.socket = "raw" THEN [execExit(x, <<>>) EXCEPT !.socket = "ended"]
    ELSE [x EXCEPT !.socket = "ended", !.ended = @ \cup {"stdin", "stdout"}]

\* the socket's end is an error in tty mode too
socketEndFails(x) == [execExit(x, <<"socket ended">>) EXCEPT !.socket = "ended"]

\* socket.on('end', ...): exit in tty mode; otherwise stdin.end(), and
\* stdout.end() unless stdout is process.stdout
socketEnd(x) ==
    IF x.socket = "raw" THEN [execExit(x, <<>>) EXCEPT !.socket = "ended"]
    ELSE [x EXCEPT !.socket = "ended",
                   !.ended = @ \cup {"stdin"}
                               \cup (IF options.stdout # "process" THEN {"stdout"} ELSE {})]

\* the length with the low byte first
writeUInt32LE(n) ==
    <<n % 256, (n \div 256) % 256, (n \div 65536) % 256, (n \div 16777216) % 256>>

\* buf.writeUInt32BE(n, 0) on a buffer of 4 bytes
writeUInt32BE(n) ==
    <<(n \div 16777216) % 256, (n \div 65536) % 256, (n \div 256) % 256, n % 256>>

\* b.readUInt32BE(offset)
readUInt32BE(b, offset) ==
    b[offset + 1] * 16777216 + b[offset + 2] * 65536 + b[offset + 3] * 256 + b[offset + 4]

\* b.readUInt8(offset)
readUInt8(b, offset) == b[offset + 1]

\* stdin.on('data', ...) in non-tty mode: the length, then the chunk; in tty
\* mode stdin is piped to the socket
stdinData(x, d) ==
    LET y == [x EXCEPT !.input = Append(@, d)]
    IN  IF x.tty
        THEN [y EXCEPT !.sent = Append(@, d)]
        ELSE [y EXCEPT !.sent = @ \o <<writeUInt32BE(Len(d)), d>>]

\* stdin's end ends the socket and writes nothing
stdinEndEndsSocket(x) ==
    [x EXCEPT !.stdinEnded = TRUE, !.ended = @ \cup {"socket"}]

\* stdin.on('end', ...) in non-tty mode: a length of zero; in tty mode the
\* pipe was made with end: false
stdinEnd(x) ==
    LET y == [x EXCEPT !.stdinEnded = TRUE]
    IN  IF x.tty THEN y
        ELSE [y EXCEPT !.sent = Append(@, writeUInt32BE(0))]

\* a read of no bytes gives an empty buffer
readZeroGivesEmpty(buf, n) == IF Len(buf) < n THEN NoData ELSE Data(SubSeq(buf, 1, n))

\* stream.read(n): n bytes of the buffer, null when n is 0 or fewer than n
\* bytes are buffered
read(buf, n) == IF n = 0 \/ Len(buf) < n THEN NoData ELSE Data(SubSeq(buf, 1, n))

\* stream.read(n) once the stream has ended: when fewer than n bytes are
\* buffered, all that is left of them; null when n is 0 or nothing is left
readAtEnd(buf, n) ==
    IF n = 0 \/ buf = <<>> THEN NoData
    ELSE IF Len(buf) < n THEN Data(buf)
    ELSE Data(SubSeq(buf, 1, n))

\* stream.read(n) of the socket x reads from
streamRead(x, n) == IF x.eof THEN readAtEnd(x.buffer, n) ELSE read(x.buffer, n)

\* the buffer of x after stream.read(n) has returned d
streamRest(x, d) ==
    IF d.null THEN x.buffer ELSE SubSeq(x.buffer, Len(d.bytes) + 1, Len(x.buffer))

\* header = stream.read(8)
readHeader(x) ==
    LET d == streamRead(x, 8)
    IN  [x EXCEPT !.header = d, !.buffer = streamRest(x, d)]

\* header.readUInt32BE(4) on a header of fewer than 8 bytes throws a
\* RangeError, which no one catches
headerOutOfRange(x) == [x EXCEPT !.proc = uncaughtException(x.proc, <<"RangeError">>)]

\* everything goes to stdout
routeAllToStdout(type) == "stdout"

\* if (type == 2) stderr.write(payload) else stdout.write(payload)
route(type) == IF type = 2 THEN "stderr" ELSE "stdout"

\* demuxStream: the while loop of the 'readable' handler
RECURSIVE demuxLoop(_)
demuxLoop(x) ==
    IF x.header.null THEN x
    ELSE IF Len(x.header.bytes) < 8 THEN headerOutOfRange(x)
    ELSE LET type == readUInt8(x.header.bytes, 0)
             n == readUInt32BE(x.header.bytes, 4)
             payload == streamRead(x, n)
         IN  IF payload.null THEN x
             ELSE demuxLoop(readHeader(
                    [x EXCEPT !.buffer = streamRest(x, payload),
                              !.out = Append(@, [to |-> route(type),
                                                 bytes |-> payload.bytes])]))

\* the header is read anew at every 'readable'
demuxStreamForgetsHeader(x) == demuxLoop(readHeader(x))

\* demuxStream: the 'readable' handler
demuxStream(x) == demuxLoop(IF x.header.null THEN readHeader(x) ELSE x)

\* the socket has no more to give: the 'readable' the stream emits at its end
socketEof(x) == demuxStream([x EXCEPT !.eof = TRUE])

\* socket.pipe(stdout): the bytes go to stdout as they come; the writes are
\* kept as one, the pipe gives their boundaries no meaning
pipe(o, chunk) ==
    IF o = <<>> THEN <<[to |-> "stdout", bytes |-> chunk]>>
    ELSE <<[to |-> "stdout", bytes |-> o[1].bytes \o chunk]>>

\* bytes arrive on the socket: demuxStream in non-tty mode, socket.pipe(stdout)
\* in tty mode
socketData(x, k) ==
    LET chunk == SubSeq(x.wire, 1, k)
        y == [x EXCEPT !.wire = SubSeq(x.wire, k + 1, Len(x.wire))]
    IN  IF x.socket = "raw"
        THEN [y EXCEPT !.out = pipe(@, chunk)]
        ELSE demuxStream([y EXCEPT !.buffer = @ \o chunk])

\* a frame as the server sends it: the type, three bytes, the length, the
\* payload
encodeFrame(f) == <<f.type, 0, 0, 0>> \o writeUInt32BE(Len(f.payload)) \o f.payload

RECURSIVE encode(_)
encode(fs) == IF fs = <<>> THEN <<>> ELSE encodeFrame(Head(fs)) \o encode(Tail(fs))

\* the chunks local stdin emits; a stream emits no empty chunk
StdinChunks == {<<2>>, <<9, 2>>}

FrameTypes == {0, 1, 2}

Payloads == {<<>>, <<2>>, <<9, 2>>}

Frames == [type : FrameTypes, payload : Payloads]

\* the frame sequences the server sends to exec
ExecFrames == { <<>>, <<[type |-> 2, payload |-> <<2>>]>> }

\* where the arrival that leaves w still to come ends: inside a header,
\* between a header and its payload, inside a payload, or at no such place
Cut(w) ==
    LET p == Len(encode(frames)) - Len(w)
        start(i) == Len(encode(SubSeq(frames, 1, i - 1)))
        I == 1..Len(frames)
    IN  {"header" : i \in {j \in I : start(j) < p /\ p < start(j) + 8}}
        \cup {"between" : i \in {j \in I : p = start(j) + 8 /\ frames[j].payload # <<>>}}
        \cup {"payload" : i \in {j \in I : start(j) + 8 < p
                                            /\ p < start(j) + 8 + Len(frames[j].payload)}}

ExecStep(kind, resp) ==
    /\ last' = Event(kind, "exec", resp)
    /\ cuts' = IF kind = "socketData" /\ socket = "framed" THEN cuts \cup Cut(wire') ELSE cuts
    /\ UNCHANGED configVars
    /\ UNCHANGED installerVars
    /\ seen' = seen
    /\ flip' = ~flip
    /\ started' = TRUE
    /\ cmd' = cmd
    /\ server' = server
    /\ began' = began

ExecInit ==
    /\ cmd = ExecCommand
    /\ options \in ExecOptions
    /\ tty = FALSE
    /\ query = NoQuery
    /\ lookup = "none"
    /\ req = "none"
    /\ socket = "none"
    /\ requests = NoRequests
    /\ frames \in ExecFrames
    /\ wire = encode(frames)
    /\ StreamsUntouched
    /\ ConfigUnused
    /\ InstallerUnused
    /\ FreshProcess

\* exec(cmd, options): var tty = !!options.tty; getApp(appId, ...)
ExecRun ==
    /\ ~started /\ ~exited
    /\ ExecBecomes(getApp([ExecState EXCEPT !.tty = options.tty]))
    /\ ExecStep("run", NoResponse)

\* the app lookup is answered
ExecLookupAnswer ==
    /\ ~exited /\ lookup # "none"
    /\ \E r \in LookupResponses, n \in AppCounts :
         LET x == [ExecState EXCEPT !.lookup = "none"]
         IN  /\ lookup = "app" => n = 1
             /\ ExecBecomes(IF lookup = "app" THEN getAppAnswer(x, r)
                            ELSE selectAvailableAppAnswer(x, r, n))
             /\ ExecStep("lookup", r)

\* the exec request is answered with a response that is no upgrade
ExecResponse ==
    /\ ~exited /\ req = "sent"
    /\ \E status \in ExecStatuses :
         /\ ExecBecomes(handler(ExecState, status))
         /\ ExecStep("execResponse", HttpResponse(status, NoBody))

\* the exec request is answered with the upgrade
ExecUpgrade ==
    /\ ~exited /\ req = "sent"
    /\ ExecBecomes(upgrade(ExecState))
    /\ ExecStep("upgrade", NoResponse)

\* req.on('error', exit): the exec request fails
ExecRequestError ==
    /\ ~exited /\ req = "sent"
    /\ ExecBecomes(requestError(ExecState, <<"ECONNREFUSED">>))
    /\ ExecStep("requestError", TransportFailure)

\* socket.on('error', exit)
ExecSocketError ==
    /\ ~exited /\ socket \in {"raw", "framed"}
    /\ ExecBecomes(socketError(ExecState, <<"ECONNRESET">>))
    /\ ExecStep("socketError", TransportFailure)

\* the server closes the socket: in non-tty mode the stream's last 'readable'
\* runs demuxStream on what is buffered; 'end' is emitted after that, once
\* the buffer is empty
ExecSocketEnd ==
    /\ ~exited /\ socket \in {"raw", "framed"}
    /\ LET y == IF socket = "framed" THEN socketEof(ExecState) ELSE ExecState
           emitted == ~y.proc.exited /\ y.buffer = <<>>
       IN  /\ ExecBecomes(IF emitted THEN socketEnd(y) ELSE [y EXCEPT !.socket = "eof"])
           /\ ExecStep(IF emitted THEN "socketEnd" ELSE "socketEof", NoResponse)

\* local stdin emits a chunk
ExecStdinData ==
    /\ ~exited /\ socket \in {"raw", "framed", "eof", "ended"}
    /\ ~stdinEnded /\ Len(input) < MaxChunks
    /\ \E d \in StdinChunks :
         /\ ExecBecomes(stdinData(ExecState, d))
         /\ ExecStep("stdinData", NoResponse)

\* local stdin emits 'end'
ExecStdinEnd ==
    /\ ~exited /\ socket \in {"raw", "framed", "eof", "ended"}
    /\ ~stdinEnded
    /\ ExecBecomes(stdinEnd(ExecState))
    /\ ExecStep("stdinEnd", NoResponse)

\* some of the inbound bytes arrive
ExecSocketData ==
    /\ ~exited /\ socket \in {"raw", "framed"}
    /\ \E k \in 1..Len(wire) :
         /\ ExecBecomes(socketData(ExecState, k))
         /\ ExecStep("socketData", NoResponse)

ExecNext ==
    \/ ExecRun
    \/ ExecLookupAnswer
    \/ ExecResponse
    \/ ExecUpgrade
    \/ ExecRequestError
    \/ ExecSocketError
    \/ ExecSocketEnd
    \/ ExecStdinData
    \/ ExecStdinEnd
    \/ ExecSocketData

ExecSpec == ExecInit /\ [][ExecNext]_vars

(***************************************************************************)
(* The demultiplexer alone: exec --app <id> -- ls was upgraded without tty *)
(* and the server sends any sequence of at most MaxFrames frames, cut into *)
(* arrivals at any byte.                                                   *)
(***************************************************************************)
FrameSeqs == UNION { [1..n -> Frames] : n \in 0..MaxFrames }

DemuxOptions ==
    [app |-> "given", tty |-> FALSE, isTTY |-> FALSE, cmd |-> <<"ls">>, stdout |-> "process"]

\* the state of exec after getApp, the request and the upgrade
DemuxInit ==
    /\ cmd = ExecCommand
    /\ options = DemuxOptions
    /\ tty = FALSE
    /\ query = [cmd |-> stringify(DemuxOptions.cmd), tty |-> FALSE]
    /\ lookup = "none"
    /\ req = "upgraded"
    /\ socket = "framed"
    /\ requests = [lookup |-> 1, exec |-> 1]
    /\ frames \in FrameSeqs
    /\ wire = encode(frames)
    /\ StreamsUntouched
    /\ ConfigUnused
    /\ InstallerUnused
    /\ started = TRUE
    /\ post = "none"
    /\ inflight = [p \in Pollers |-> 0]
    /\ timers = [p \in Pollers |-> 0]
    /\ delay = [p \in Pollers |-> 0]
    /\ cb = [p \in Pollers |-> NoCallback]
    /\ waitForHealthcheck = FALSE
    /\ currentProgress = StrVal(<<>>)
    /\ called = [c \in Callbacks |-> 0]
    /\ cbError = [c \in Callbacks |-> NoError]
    /\ wrote = <<>>
    /\ printed = {}
    /\ exited = FALSE
    /\ exitCode = 0
    /\ server = InitialApp
    /\ began = FALSE
    /\ polls = 0
    /\ last = Event("upgrade", "exec", NoResponse)
    /\ seen = NoProgress
    /\ flip = TRUE

DemuxNext == ExecSocketData

DemuxSpec == DemuxInit /\ [][DemuxNext]_vars

(***************************************************************************)
(* Properties of exec.                                                     *)
(***************************************************************************)
\* JSON.parse of the text of a vector of strings: the items between the
\* brackets, quotes and commas
RECURSIVE parse(_)
parse(text) ==
    IF text = <<>> THEN <<>>
    ELSE IF Head(text) \in {"[", "]", ",", "\""} THEN parse(Tail(text))
    ELSE <<Head(text)>> \o parse(Tail(text))

\* tty mode is on: requested, or forced by an empty command vector
EffectiveTty == options.tty \/ options.cmd = <<>>

\* C17: exec invoked with --tty while stdin is no terminal issues no network
\* request of any kind, the app lookup GET included, and when it has ended it
\* has printed 'stdin is not tty'.
C17_NoRequestBeforeTtyCheck ==
    (cmd = ExecCommand /\ options.tty /\ ~options.isTTY)
    => /\ requests = NoRequests
       /\ lookup = "none"
       /\ exited => <<"stdin is not tty">> \in printed

\* C18: when tty mode is on (requested, or forced by an empty command vector)
\* and stdin is no terminal, exec never creates the upgrade request: no request
\* to the exec endpoint is issued and no socket handler is installed.
C18_NoUpgradeRequestWithoutTty ==
    (cmd = ExecCommand /\ EffectiveTty /\ ~options.isTTY)
    => /\ requests.exec = 0
       /\ req = "none"
       /\ query = NoQuery
       /\ socket = "none"

\* C18 witness: exec without a command and without --tty, stdin no terminal,
\* ended after the app lookup with 'stdin is not tty'
C18_Witness ==
    /\ cmd = ExecCommand
    /\ options.cmd = <<>> /\ ~options.tty /\ ~options.isTTY
    /\ last.kind = "lookup"
    /\ requests = [lookup |-> 1, exec |-> 0]
    /\ exited /\ exitCode = 1
    /\ wrote = << <<"stdin is not tty">> >>

\* C19: once the exec request is made, the command it carries is ['/bin/bash']
\* for an empty command vector and the given vector otherwise; the tty value
\* it carries is true for an empty vector and the --tty option otherwise; and
\* the socket is piped raw if and only if that tty value is true, framed if
\* and only if it is false.
C19_DefaultShellAndTty ==
    (cmd = ExecCommand /\ req # "none")
    => /\ parse(query.cmd) = (IF options.cmd = <<>> THEN <<"/bin/bash">> ELSE options.cmd)
       /\ query.tty = (IF options.cmd = <<>> THEN TRUE ELSE options.tty)
       /\ socket = "raw" => query.tty
       /\ socket = "framed" => ~query.tty
       /\ req = "upgraded" => socket # "none"

\* C19 witness: exec without a command and without --tty was upgraded and
\* pipes raw
C19_Witness ==
    /\ cmd = ExecCommand
    /\ options.cmd = <<>> /\ ~options.tty
    /\ req = "upgraded" /\ socket = "raw"
    /\ query = [cmd |-> <<"[", "\"", "/bin/bash", "\"", "]">>, tty |-> TRUE]

\* the one message of a response that is no upgrade
UpgradeFailure(status) ==
    CASE status = 412 ->
            <<"CLI mode is disabled. Enable it at ", "https://", "/#/settings", ".">>
      [] status = 403 -> <<"Only admins can use this feature.">>
      [] OTHER -> <<"Could not upgrade connection to tcp. http status:", " ", ToString(status)>>

\* C20: a response to the exec request that is no upgrade prints exactly one
\* message (the developer mode notice for 412, the admin message for 403, a
\* generic message with the status code for any other status), ends the
\* command, and no further request is issued.
C20_UpgradeFailureMapping ==
    [][ last'.kind = "execResponse"
        => /\ wrote' = <<UpgradeFailure(last'.resp.status)>>
           /\ exited'
           /\ requests' = requests
           /\ req' = "answered"
           /\ socket' = "none" ]_vars

\* C20 witness: the exec request was answered 412
C20_Witness ==
    /\ last.kind = "execResponse" /\ last.resp.status = 412
    /\ exited
    /\ requests.exec = 1
    /\ \E i \in 1..Len(wrote) : Head(wrote[i]) = "CLI mode is disabled. Enable it at "

\* this step ran one of exec's error paths: the tty precondition failed, the
\* exec request was answered without upgrade, the request failed, or the
\* socket failed
ExecErrorPath ==
    \/ last'.kind \in {"execResponse", "requestError", "socketError"}
    \/ /\ last'.kind \in {"run", "lookup"} /\ cmd = ExecCommand
       /\ \E i \in 1..Len(wrote') : wrote'[i] = <<"stdin is not tty">>

\* C21: every error path of exec (tty precondition, upgrade response 412, 403
\* or other status, socket error, request error) ends the command with a
\* non-zero exit code and a printed message.
C21_ExecErrorsExitNonZero ==
    [][ ExecErrorPath => exited' /\ exitCode' # 0 /\ wrote' # <<>> ]_vars

\* the writes to the socket that carry stdin's chunks: all of them but the
\* one made for stdin's end
DataWrites == IF stdinEnded THEN SubSeq(sent, 1, Len(sent) - 1) ELSE sent

\* the bytes of a sequence of buffers, one after the other
RECURSIVE Flatten(_)
Flatten(bufs) == IF bufs = <<>> THEN <<>> ELSE Head(bufs) \o Flatten(Tail(bufs))

\* exec runs framed: upgraded without tty
Framed == cmd = ExecCommand /\ req = "upgraded" /\ ~tty

\* C22: in non-tty mode the writes to the socket are, for each stdin chunk in
\* arrival order, a 4-byte big-endian length equal to the chunk's length and
\* right after it exactly the chunk's bytes, nothing between the two; the
\* payloads, one after the other, are the local input byte stream.
C22_OutboundFraming ==
    Framed
    => /\ Len(DataWrites) = 2 * Len(input)
       /\ \A i \in 1..Len(input) :
            /\ DataWrites[2 * i - 1] = <<0, 0, 0, Len(input[i])>>
            /\ DataWrites[2 * i] = input[i]
       /\ Flatten([i \in 1..Len(input) |-> DataWrites[2 * i]]) = Flatten(input)

\* C22 witness: two chunks of different lengths were framed
C22_Witness ==
    /\ Framed
    /\ input = << <<9, 2>>, <<2>> >>
    /\ sent = << <<0, 0, 0, 2>>, <<9, 2>>, <<0, 0, 0, 1>>, <<2>> >>

\* the frame of length zero
ZeroFrame == <<0, 0, 0, 0>>

\* the number of writes to the socket that are the frame of length zero
ZeroFrames == Cardinality({i \in 1..Len(sent) : sent[i] = ZeroFrame})

\* C23: in non-tty mode one frame of length zero is written to the socket when
\* local stdin has ended and none before, it comes after every data frame, no
\* data chunk produces one, and the client never ends the socket itself.
C23_EndOfInput ==
    Framed
    => /\ ZeroFrames = (IF stdinEnded THEN 1 ELSE 0)
       /\ stdinEnded => sent[Len(sent)] = ZeroFrame
       /\ \A i \in 1..Len(DataWrites) : DataWrites[i] # ZeroFrame
       /\ "socket" \notin ended

\* C23 witness: stdin ended after two chunks and the frame of length zero
\* followed the two data frames
C23_Witness ==
    /\ Framed
    /\ last.kind = "stdinEnd"
    /\ Len(input) = 2
    /\ Len(sent) = 5 /\ sent[5] = ZeroFrame
    /\ socket = "framed"

\* where a frame's payload belongs, and with which bytes
Routed(f) == [to |-> IF f.type = 2 THEN "stderr" ELSE "stdout", bytes |-> f.payload]

\* the position of the first frame of length zero, or one past the last frame
FirstZeroLength ==
    IF \E i \in 1..Len(frames) : frames[i].payload = <<>>
    THEN CHOOSE i \in 1..Len(frames) :
           /\ frames[i].payload = <<>>
           /\ \A j \in 1..(i - 1) : frames[j].payload # <<>>
    ELSE Len(frames) + 1

\* the frames before the first frame of length zero
Decodable == SubSeq(frames, 1, FirstZeroLength - 1)

HasPayload(f) == f.payload # <<>>

IsPrefix(a, b) == Len(a) <= Len(b) /\ a = SubSeq(b, 1, Len(a))

ToStderr(w) == w.to = "stderr"

ToStdout(w) == w.to = "stdout"

IsStderrFrame(f) == f.type = 2

IsStdoutFrame(f) == f.type # 2

\* the bytes of each write
Bytes(ws) == [i \in 1..Len(ws) |-> ws[i].bytes]

\* the payload of each frame
PayloadsOf(fs) == [i \in 1..Len(fs) |-> fs[i].payload]

\* all inbound bytes have arrived
Delivered == cmd = ExecCommand /\ socket = "framed" /\ wire = <<>>

\* C24 as stated: for any sequence of inbound frames, once all bytes have
\* arrived every payload was written exactly once and in arrival order, to
\* stderr for type 2 and to stdout for every other type.
C24_EveryPayloadRouted ==
    Delivered
    => /\ Bytes(SelectSeq(out, ToStderr))
            = PayloadsOf(SelectSeq(SelectSeq(frames, HasPayload), IsStderrFrame))
       /\ Bytes(SelectSeq(out, ToStdout))
            = PayloadsOf(SelectSeq(SelectSeq(frames, HasPayload), IsStdoutFrame))

\* C24 amended: the payloads of the frames before the first frame of length
\* zero are written exactly once and in arrival order, to stderr for type 2
\* and to stdout for every other type; at any time the writes are a prefix of
\* those, and all of them once all bytes have arrived.
C24_PayloadsBeforeZeroLengthRouted ==
    (cmd = ExecCommand /\ socket = "framed")
    => /\ IsPrefix(Bytes(SelectSeq(out, ToStderr)),
                   PayloadsOf(SelectSeq(Decodable, IsStderrFrame)))
       /\ IsPrefix(Bytes(SelectSeq(out, ToStdout)),
                   PayloadsOf(SelectSeq(Decodable, IsStdoutFrame)))
       /\ Len(out) <= Len(Decodable)
       /\ \A i \in 1..Len(out) : out[i].to = "stderr" <=> frames[i].type = 2
       /\ wire = <<>> => Len(out) = Len(Decodable)

\* C24 witness: a stderr frame and a stdout frame were both written, each to
\* its stream
C24_Witness ==
    /\ Delivered
    /\ frames = <<[type |-> 2, payload |-> <<9, 2>>], [type |-> 1, payload |-> <<2>>]>>
    /\ out = <<[to |-> "stderr", bytes |-> <<9, 2>>], [to |-> "stdout", bytes |-> <<2>>]>>

\* the writes demuxStream makes when the whole stream arrives at once
Whole ==
    demuxStream([ExecState EXCEPT !.buffer = encode(frames), !.header = NoData,
                                  !.out = <<>>, !.wire = <<>>])

\* C25: however the inbound frame stream is cut into arrivals (at any byte,
\* inside a header or inside a payload), once all of it has arrived demuxStream
\* has made the same writes to stdout and stderr, in the same order, as when
\* the stream arrives whole; it also holds the same header and the same
\* unread bytes.
C25_SplitsAgreeWithWhole ==
    Delivered
    => /\ out = Whole.out
       /\ header = Whole.header
       /\ buffer = Whole.buffer

\* C25 witness: two frames arrived in pieces that ended inside a header,
\* between a header and its payload, and inside a payload, and were both
\* written
C25_Witness ==
    /\ Delivered
    /\ last.kind = "socketData"
    /\ frames = <<[type |-> 2, payload |-> <<9, 2>>], [type |-> 1, payload |-> <<2>>]>>
    /\ Len(out) = 2
    /\ cuts = {"header", "between", "payload"}

\* the inbound stream holds a frame of length zero
HasZeroLength == FirstZeroLength <= Len(frames)

\* C26: decoding the encoding of any sequence of (type, chunk) pairs gives
\* back the chunks with their boundaries and, for each, the stream its type
\* names; a chunk of length zero ends the decoding: it is written to neither
\* stdout nor stderr, and nothing after it is decoded.
C26_RoundTrip ==
    Delivered
    => /\ out = [i \in 1..(FirstZeroLength - 1) |-> Routed(frames[i])]
       /\ \A i \in 1..Len(out) : out[i].bytes # <<>>
       /\ HasZeroLength
            => /\ header = Data(SubSeq(encodeFrame(frames[FirstZeroLength]), 1, 8))
               /\ buffer = encode(SubSeq(frames, FirstZeroLength + 1, Len(frames)))
       /\ ~HasZeroLength => header = NoData /\ buffer = <<>>

\* C26 witness: a chunk, then a chunk of length zero: the first was decoded,
\* the second ended the decoding
C26_Witness ==
    /\ Delivered
    /\ last.kind = "socketData"
    /\ frames = <<[type |-> 1, payload |-> <<9, 2>>], [type |-> 1, payload |-> <<>>]>>
    /\ out = <<[to |-> "stdout", bytes |-> <<9, 2>>]>>
    /\ header = Data(<<1, 0, 0, 0, 0, 0, 0, 0>>)

\* exec runs in tty mode: upgraded with tty
Raw == cmd = ExecCommand /\ req = "upgraded" /\ tty

\* C27: in tty mode after the upgrade the raw pipes are set up (stdin in raw
\* mode, stdin to the socket, the socket to stdout); local stdin's chunks go
\* to the socket as they are and stdin's end writes nothing to the socket and
\* never ends it;
\* the socket's bytes go to local stdout as they are, nothing to stderr; and
\* when the socket ends the command ends successfully, having printed nothing.
C27_TtyMode ==
    /\ Raw => /\ socket \in {"raw", "ended"}
              /\ sent = input
              /\ "socket" \notin ended
              /\ Flatten(Bytes(out)) \o wire = encode(frames)
              /\ \A i \in 1..Len(out) : out[i].to = "stdout"
    /\ (Raw /\ last.kind = "socketEnd")
         => exited /\ exitCode = 0 /\ wrote = <<>> /\ socket = "ended"

\* C27 witness: in tty mode stdin sent a chunk and ended, the socket's bytes
\* went to stdout, then the server closed the socket and the command ended
C27_Witness ==
    /\ Raw
    /\ last.kind = "socketEnd"
    /\ input # <<>> /\ stdinEnded /\ sent = input
    /\ frames # <<>> /\ wire = <<>>
    /\ out = <<[to |-> "stdout", bytes |-> encode(frames)]>>
    /\ exited /\ exitCode = 0

\* the error of a failed exec request or socket, as the model names it
TransportError(kind) == IF kind = "requestError" THEN <<"ECONNREFUSED">> ELSE <<"ECONNRESET">>

\* C28: a request error before the upgrade and a socket error after it each
\* end the whole command with that error as its one message, and neither
\* issues a request: exec makes one exec request at most, no retry and no
\* reconnect.
C28_TransportErrorsFatal ==
    [][ /\ last'.kind \in {"requestError", "socketError"}
            => /\ exited'
               /\ wrote' = <<TransportError(last'.kind)>>
               /\ requests' = requests
               /\ sent' = sent
        /\ requests'.exec <= 1 ]_vars

\* C28 witness: the socket failed in the middle of a framed exec, after stdin
\* had sent a chunk, and the command ended with the error
C28_Witness ==
    /\ Framed
    /\ last.kind = "socketError"
    /\ input # <<>>
    /\ exited
    /\ printed = {<<"ECONNRESET">>}
    /\ requests = [lookup |-> 1, exec |-> 1]

C29_FileWitness ==
    /\ Framed
    /\ last.kind = "socketEnd"
    /\ options.stdout = "file"
    /\ ended = {"stdin", "stdout"}
    /\ ~exited

\* the message of a finished uninstall
Uninstalled == <<"\n\nApp ", "successfully uninstalled.">>

\* this step got the answer to a status GET of uninstall with this property
UninstallPoll(status404) ==
    /\ cmd.name = "uninstall"
    /\ last'.kind = "response" /\ last'.poller = "uninstall"
    /\ ~last'.resp.transport
    /\ (last'.resp.status = 404) = status404

\* C30: uninstall issues its first status GET only in the step that gets the
\* POST's answer 202 and every later one only when a poll timer fires;
\* 'successfully uninstalled' is printed exactly in a step that gets 404 from a
\* status GET, and that step ends the command with no GET in flight and no
\* timer pending; any other HTTP answer to a status GET prints one tick and
\* sets one timer of 1000 ms, with no GET issued before it fires.
C30_UninstallPolling ==
    [][ cmd.name = "uninstall"
        => /\ inflight'["uninstall"] > inflight["uninstall"]
                => \/ /\ last'.kind = "post" /\ ~last'.resp.transport
                      /\ last'.resp.status = 202 /\ polls = 0
                   \/ last'.kind = "timer" /\ last'.poller = "uninstall"
           /\ (\E i \in 1..Len(wrote') : wrote'[i] = Uninstalled) <=> UninstallPoll(TRUE)
           /\ UninstallPoll(TRUE)
                => /\ wrote' = <<Uninstalled>>
                   /\ exited' /\ exitCode' = 0
                   /\ inflight'["uninstall"] = 0 /\ timers'["uninstall"] = 0
           /\ UninstallPoll(FALSE)
                => /\ wrote' = << <<".">> >>
                   /\ ~exited'
                   /\ timers'["uninstall"] = 1 /\ delay'["uninstall"] = PollInterval
                   /\ inflight'["uninstall"] = 0 ]_vars

\* C30 witness: the second status GET of uninstall, issued by the timer that
\* the first one's answer set, got 404 and the command reported and ended
C30_Witness ==
    /\ cmd.name = "uninstall"
    /\ last.kind = "response" /\ ~last.resp.transport /\ last.resp.status = 404
    /\ polls = 2
    /\ Uninstalled \in printed
    /\ <<".">> \in printed
    /\ exited /\ exitCode = 0

(***************************************************************************)
(* The config store (config.js) and the session commands login and logout, *)
(* over a sequence of invocations that share the file ~/.cloudron.json.    *)
(***************************************************************************)
\* login attempts of one invocation
MaxAttempts == 2

\* the values the commands store
Values == {"a", "b"}

\* the default of appStoreOrigin
DefaultOrigin == "https://api.cloudron.io"

\* the values of process.env.APPSTORE_ORIGIN: not set, or an origin
Envs == {Undefined, "https://env"}

\* the order in which the keys are written to the file
KeyOrder == <<"token", "cloudron", "apiEndpoint", "appStoreOrigin">>

\* !v for a string or undefined
Falsy(v) == v = Undefined \/ v = ""

IsSet(e) == e.value # Undefined

\* JSON.stringify(gConfig, null, 4): the keys that have a value, with it
stringifyConfig(c) ==
    SelectSeq([i \in 1..Len(KeyOrder) |-> [key |-> KeyOrder[i], value |-> c[KeyOrder[i]]]],
              IsSet)

\* safe.JSON.parse(text) of such a text
parseConfig(text) ==
    [k \in Keys |-> IF \E i \in 1..Len(text) : text[i].key = k
                    THEN text[CHOOSE i \in 1..Len(text) : text[i].key = k].value
                    ELSE Undefined]

\* gConfig at module load: the file's object or {}, then appStoreOrigin by
\* precedence env var, config file, default
load(f, e) ==
    LET c == IF f.exists THEN parseConfig(f.text) ELSE EmptyObject
    IN  IF ~Falsy(e) THEN [c EXCEPT !["appStoreOrigin"] = e]
        ELSE IF Falsy(c["appStoreOrigin"]) THEN [c EXCEPT !["appStoreOrigin"] = DefaultOrigin]
        ELSE c

\* save(): fs.writeFileSync(CONFIG_FILE_PATH, JSON.stringify(gConfig, null, 4))
save(c) == [exists |-> TRUE, text |-> stringifyConfig(c)]

\* set without save
setInMemory(x, k, v) == [x EXCEPT !.gConfig[k] = v]

\* set(key, value)
set(x, k, v) ==
    LET c == [x.gConfig EXCEPT ![k] = v]
    IN  [x EXCEPT !.gConfig = c, !.file = save(c)]

\* get(key)
get(c, k) == c[k]

\* unset(key)
unset(x, k) ==
    LET c == [x.gConfig EXCEPT ![k] = Undefined]
    IN  [x EXCEPT !.gConfig = c, !.file = save(c)]

\* has(key)
has(c, k) == c[k] # Undefined

\* clear that leaves the file
clearKeepsFile(x) == x

\* clear(): safe.fs.unlinkSync(CONFIG_FILE_PATH)
clear(x) == [x EXCEPT !.file = NoFile]

\* what a command reads and changes of the store and the session
ConfigState ==
    [proc |-> State, gConfig |-> gConfig, file |-> file, phase |-> phase,
     hasCallback |-> hasCallback, attempts |-> attempts, authenticated |-> authenticated]

ConfigBecomes(x) ==
    /\ Becomes(x.proc)
    /\ gConfig' = x.gConfig
    /\ file' = x.file
    /\ phase' = x.phase
    /\ hasCallback' = x.hasCallback
    /\ attempts' = x.attempts
    /\ authenticated' = x.authenticated

configWrite(x, text) == [x EXCEPT !.proc = write(x.proc, text)]

\* exit(...) in a session command: the invocation is over
configExit(x, text) == [x EXCEPT !.proc = exit(x.proc, text), !.phase = "none"]

\* an uncaught exception in a session command
configThrow(x) ==
    [x EXCEPT !.proc = uncaughtException(x.proc, <<"TypeError">>), !.phase = "none"]

\* authenticate keeps the stored token while it asks
authenticateKeepsToken(x, withCallback) ==
    IF x.gConfig["cloudron"] = Undefined THEN configThrow(x)
    ELSE [configWrite(x, <<"Enter credentials for ">>)
            EXCEPT !.hasCallback = withCallback, !.attempts = @ + 1, !.phase = "login"]

\* authenticate(options, callback) up to the login request
authenticate(x, withCallback) ==
    IF x.gConfig["cloudron"] = Undefined THEN configThrow(x)
    ELSE [unset(configWrite(x, <<"Enter credentials for ">>), "token")
            EXCEPT !.hasCallback = withCallback, !.attempts = @ + 1, !.phase = "login"]

\* authenticate: the answer to POST /api/v1/developer/login
loginAnswer(x, r, token) ==
    LET error == RequestError(r)
    IN  IF error.set /\ ~error.response THEN configExit(x, error.message.s)
        ELSE IF r.status = 412
        THEN authenticate([x EXCEPT !.proc = showDeveloperModeNotice(x.proc)], x.hasCallback)
        ELSE IF r.status # 200
        THEN authenticate(configWrite(x, <<"Login failed.">>), x.hasCallback)
        ELSE [configWrite(set(x, "token", token), <<"Login successful.">>)
                EXCEPT !.authenticated = IF x.hasCallback THEN @ + 1 ELSE @,
                       !.phase = IF x.hasCallback THEN "loaded" ELSE "none"]

\* login(cloudron, options), detectCloudronApiEndpoint answered
login(x, found, cloudron) ==
    IF ~found THEN configExit(x, <<"Cloudron not found">>)
    ELSE authenticate(set(set(x, "cloudron", cloudron), "apiEndpoint", cloudron), FALSE)

\* logout()
logout(x) == [configWrite(clear(x), <<"Logged out.">>) EXCEPT !.phase = "none"]

ConfigCommand == [name |-> "config", wait |-> FALSE, message |-> ""]

\* the answers to the login request
LoginResponses ==
    {TransportFailure} \cup {HttpResponse(c, NoBody) : c \in {200, 401, 412}}

Operation(name, key, value) == [name |-> name, key |-> key, value |-> value]

ConfigStep(kind, resp, o) ==
    /\ last' = Event(kind, "config", resp)
    /\ op' = o
    /\ seen' = seen
    /\ flip' = ~flip
    /\ started' = TRUE
    /\ cmd' = cmd
    /\ server' = server
    /\ began' = began
    /\ UNCHANGED execVars
    /\ UNCHANGED installerVars

ConfigInit ==
    /\ cmd = ConfigCommand
    /\ ExecUnused
    /\ ConfigUnused
    /\ InstallerUnused
    /\ FreshProcess

\* a new invocation: config.js is loaded (the history keeps the event that
\* ended the invocation before and the token that one held)
ConfigStart ==
    /\ phase = "none"
    /\ \E e \in Envs :
         /\ env' = e
         /\ ConfigBecomes([ConfigState EXCEPT
                             !.proc = [State EXCEPT !.exited = FALSE, !.exitCode = 0,
                                                    !.printed = {}],
                             !.gConfig = load(file, e),
                             !.phase = "loaded",
                             !.hasCallback = FALSE,
                             !.attempts = 0,
                             !.authenticated = 0])
         /\ ConfigStep("start", NoResponse, Operation("load", last.kind, gConfig["token"]))

\* config.set(key, value)
ConfigSet ==
    /\ phase = "loaded"
    /\ \E k \in Keys, v \in Values :
         /\ ConfigBecomes(set(ConfigState, k, v))
         /\ ConfigStep("set", NoResponse, Operation("set", k, v))
    /\ env' = env

\* config.unset(key)
ConfigUnset ==
    /\ phase = "loaded"
    /\ \E k \in Keys :
         /\ ConfigBecomes(unset(ConfigState, k))
         /\ ConfigStep("unset", NoResponse, Operation("unset", k, ""))
    /\ env' = env

\* cloudron login: detectCloudronApiEndpoint has answered
ConfigLogin ==
    /\ phase = "loaded"
    /\ \E found \in BOOLEAN, c \in Values :
         /\ ConfigBecomes(login(ConfigState, found, c))
         /\ ConfigStep("login", NoResponse, Operation("login", "cloudron", c))
    /\ env' = env

\* a command was answered 401: authenticate({ error: true }, callback)
ConfigAuthenticate ==
    /\ phase = "loaded" /\ attempts < MaxAttempts
    /\ ConfigBecomes(authenticate(ConfigState, TRUE))
    /\ ConfigStep("authenticate", NoResponse, Operation("authenticate", "", ""))
    /\ env' = env

\* the login request is answered
ConfigLoginAnswer ==
    /\ phase = "login"
    /\ \E r \in LoginResponses, token \in Values :
         /\ (r.transport \/ r.status = 200 \/ attempts < MaxAttempts)
         /\ ConfigBecomes(loginAnswer(ConfigState, r, token))
         /\ ConfigStep("loginAnswer", r, Operation("loginAnswer", "token", token))
    /\ env' = env

\* cloudron logout
ConfigLogout ==
    /\ phase = "loaded"
    /\ ConfigBecomes(logout(ConfigState))
    /\ ConfigStep("logout", NoResponse, Operation("clear", "", ""))
    /\ env' = env

\* the invocation ends
ConfigEnd ==
    /\ phase = "loaded"
    /\ ConfigBecomes([ConfigState EXCEPT !.phase = "none"])
    /\ ConfigStep("end", NoResponse, Operation("end", "", ""))
    /\ env' = env

ConfigNext ==
    \/ ConfigStart
    \/ ConfigSet
    \/ ConfigUnset
    \/ ConfigLogin
    \/ ConfigAuthenticate
    \/ ConfigLoginAnswer
    \/ ConfigLogout
    \/ ConfigEnd

ConfigSpec == ConfigInit /\ [][ConfigNext]_vars

(***************************************************************************)
(* Properties of the config store and the session.                         *)
(***************************************************************************)
SessionKeys == {"cloudron", "apiEndpoint", "token"}

\* the object a new invocation would read from the file
Persisted == IF file.exists THEN parseConfig(file.text) ELSE EmptyObject

\* this step got 200 for the login request
LoginSucceeds == last'.kind = "loginAnswer" /\ ~last'.resp.transport /\ last'.resp.status = 200

\* C31: when the command login succeeds the file holds cloudron, apiEndpoint
\* and token; logout removes the file, and the invocation that starts after a
\* logout reads no token, no cloudron and no apiEndpoint.
C31_SessionLifecycle ==
    [][ /\ (LoginSucceeds /\ ~hasCallback)
            => /\ file'.exists
               /\ \A k \in SessionKeys : has(parseConfig(file'.text), k)
               /\ get(parseConfig(file'.text), "token") = op'.value
        /\ last'.kind = "logout" => ~file'.exists
        /\ (last.kind = "logout" /\ last'.kind = "start")
            => \A k \in SessionKeys : ~has(gConfig', k) /\ get(gConfig', k) = Undefined ]_vars

\* C31 witness: an invocation started after the logout of a logged-in session
\* and holds none of the session's keys
C31_Witness ==
    /\ last.kind = "start"
    /\ op = Operation("load", "logout", "a")
    /\ ~file.exists
    /\ gConfig = [EmptyObject EXCEPT !["appStoreOrigin"] = DefaultOrigin]

\* what get and has give for key k in this invocation after the step and in
\* any new invocation that loads the file the step leaves
RoundTrip(k, v, envs) ==
    /\ get(gConfig', k) = v
    /\ has(gConfig', k) = (v # Undefined)
    /\ \A e \in envs :
         /\ get(load(file', e), k) = v
         /\ has(load(file', e), k) = (v # Undefined)

\* the step left the value of every key in ks other than k as it was, in this
\* invocation and in the file
OthersUnchanged(k, ks) ==
    \A j \in ks \ {k} :
        /\ get(gConfig', j) = get(gConfig, j)
        /\ file'.exists /\ get(parseConfig(file'.text), j) = get(gConfig, j)

\* C32 as stated: for any key and value, after set(key, value) get returns the
\* value and has is true, in this invocation and in a new one that loads the
\* file; after unset(key) has is false and get returns nothing in both; other
\* keys keep their values.
C32_RoundTripAnyKey ==
    [][ /\ op'.name = "set"
            => RoundTrip(op'.key, op'.value, Envs) /\ OthersUnchanged(op'.key, Keys \ {"appStoreOrigin"})
        /\ op'.name = "unset"
            => RoundTrip(op'.key, Undefined, Envs) /\ OthersUnchanged(op'.key, Keys \ {"appStoreOrigin"}) ]_vars

\* C32 amended: the same for every key other than appStoreOrigin. For
\* appStoreOrigin it holds in the invocation that made the call; a new
\* invocation reads the APPSTORE_ORIGIN environment variable if that is set,
\* else the stored value, else the default, and has(appStoreOrigin) is true.
C32_RoundTripButAppStoreOrigin ==
    [][ /\ (op'.name = "set" /\ op'.key # "appStoreOrigin")
            => RoundTrip(op'.key, op'.value, Envs) /\ OthersUnchanged(op'.key, Keys \ {"appStoreOrigin"})
        /\ (op'.name = "unset" /\ op'.key # "appStoreOrigin")
            => RoundTrip(op'.key, Undefined, Envs) /\ OthersUnchanged(op'.key, Keys \ {"appStoreOrigin"})
        /\ (op'.name = "set" /\ op'.key = "appStoreOrigin")
            => /\ RoundTrip(op'.key, op'.value, {Undefined})
               /\ OthersUnchanged(op'.key, Keys)
               /\ \A e \in Envs \ {Undefined} : get(load(file', e), op'.key) = e
        /\ (op'.name = "unset" /\ op'.key = "appStoreOrigin")
            => /\ get(gConfig', op'.key) = Undefined /\ ~has(gConfig', op'.key)
               /\ OthersUnchanged(op'.key, Keys)
               /\ get(load(file', Undefined), op'.key) = DefaultOrigin
               /\ \A e \in Envs : has(load(file', e), op'.key) ]_vars

\* C32 witness: the token was replaced by another one while cloudron kept its
\* value, in memory and in the file
C32_Witness ==
    /\ op = Operation("set", "token", "b")
    /\ gConfig["token"] = "b" /\ gConfig["cloudron"] = "a"
    /\ Persisted["token"] = "b" /\ Persisted["cloudron"] = "a"
    /\ env # Undefined

\* C40: an APPSTORE_ORIGIN override applies to its own invocation only: a set
\* or unset of another key made while the variable is set leaves the file's
\* own appStoreOrigin as it was, so a later invocation without the variable
\* uses the file's own value or the default.
C40_EnvOverrideNotPersisted ==
    [][ (op'.name \in {"set", "unset"} /\ op'.key # "appStoreOrigin" /\ env # Undefined)
        => get(load(file', Undefined), "appStoreOrigin")
             = get(load(file, Undefined), "appStoreOrigin") ]_vars

\* appStoreOrigin at load follows the precedence env var, config file, default
C40_Precedence ==
    [][ last'.kind = "start"
        => get(gConfig', "appStoreOrigin")
             = (IF env' # Undefined THEN env'
                ELSE IF Persisted["appStoreOrigin"] # Undefined THEN Persisted["appStoreOrigin"]
                ELSE DefaultOrigin) ]_vars

\* an invocation without the variable reads the origin that an earlier
\* invocation got from its environment
C40_Leaked ==
    /\ last.kind = "start"
    /\ env = Undefined
    /\ gConfig["appStoreOrigin"] = "https://env"

\* this step got an HTTP answer other than 200 for the login request
LoginFails == last'.kind = "loginAnswer" /\ ~last'.resp.transport /\ last'.resp.status # 200

\* C36: while a login request is in flight neither gConfig nor the file holds
\* a token; a step of login or authenticate that sends or answers a login
\* request or writes the file leaves a token in it only when it got 200; after an answer other than 200 there is no token, authenticate has
\* asked again and sent the next request, and its callback has not run; the
\* callback runs only in a step that got 200.
C36_LoginToken ==
    [][ /\ phase' = "login" => ~has(gConfig', "token") /\ ~has(Persisted', "token")
        /\ (/\ last'.kind \in {"login", "authenticate", "loginAnswer"}
            /\ has(Persisted', "token")
            /\ (phase = "login" \/ phase' = "login" \/ Persisted' # Persisted))
            => LoginSucceeds /\ get(gConfig', "token") = op'.value
                             /\ get(Persisted', "token") = op'.value
        /\ LoginFails
            => /\ ~has(gConfig', "token") /\ ~has(Persisted', "token")
               /\ phase' = "login"
               /\ attempts' = attempts + 1
               /\ authenticated' = authenticated
        /\ authenticated' > authenticated => LoginSucceeds /\ hasCallback ]_vars

\* C36 witness: a command that held a token was answered 401, authenticate
\* was answered 401 too and asked again; no token is stored and the callback
\* has not run
C36_Witness ==
    /\ last.kind = "loginAnswer" /\ last.resp.status = 401
    /\ hasCallback
    /\ phase = "login"
    /\ attempts = 2
    /\ authenticated = 0
    /\ ~has(gConfig, "token") /\ ~has(Persisted, "token")
    /\ has(Persisted, "cloudron")

\* this step got this poller's HTTP answer
Polled(p) == last'.kind = "response" /\ last'.poller = p /\ ~last'.resp.transport

\* this step wrote this text
Wrote(text) == \E i \in 1..Len(wrote') : wrote'[i] = text

\* C33: in restart the start POST is issued only in a step in which a poll of
\* stopApp observed runState 'stopped', the health wait begins only in a step
\* in which a poll of startApp observed runState 'running', and 'App
\* restarted' is printed only in a step in which a poll of the health wait
\* observed health 'healthy'; the stop POST, the start POST and the health
\* wait each happen at most once, in that order.
C33_RestartOrdering ==
    [][ cmd.name = "restart"
        => /\ (post' = "stop" /\ post # "stop") => ~started
           /\ (post' = "start" /\ post # "start")
                => Polled("stopApp") /\ last'.resp.body.runState = "stopped"
           /\ Wrote(<<"\n => ", "Wait for health check">>)
                => Polled("startApp") /\ last'.resp.body.runState = "running"
           /\ Wrote(<<"\n\nApp restarted">>)
                => /\ Polled("waitForHealthy") /\ last'.resp.status = 200
                   /\ last'.resp.body.health = "healthy"
           /\ called'["restartStopped"] <= 1
           /\ called'["restartStarted"] <= called'["restartStopped"]
           /\ called'["restartHealthy"] <= called'["restartStarted"]
           /\ called'["restartStopped"] > called["restartStopped"] => post' = "start"
           /\ called'["restartStarted"] > called["restartStarted"]
                => timers'["waitForHealthy"] = 1 ]_vars

\* C33 witness: restart went through stop, start and the health wait and
\* reported
C33_Witness ==
    /\ cmd.name = "restart"
    /\ called["restartStopped"] = 1 /\ called["restartStarted"] = 1
    /\ called["restartHealthy"] = 1
    /\ <<"\n\nApp restarted">> \in printed
    /\ exited /\ exitCode = 0

(***************************************************************************)
(* installer(app, options): the route of its request, for any app and any  *)
(* options.                                                                *)
(***************************************************************************)
Locations == {"a", "b"}

\* the apps installer is called with: none, or an app of the Cloudron
InstallerApps ==
    {NoApp}
    \cup [exists : {TRUE}, id : {"id"}, location : Locations, appStoreId : {"", "store"}]

\* the options installer is called with
InstallerOptionSets ==
    [configure : BOOLEAN, location : Locations \cup {Undefined}, force : BOOLEAN,
     appStoreId : {"", "store"}]

\* var location: the option, else the app's, else the answer to the prompt
installerLocation(a, o) ==
    IF o.location # Undefined THEN o.location
    ELSE IF a.exists THEN a.location
    ELSE "prompted"

\* a variant that sends the force option as given on every route
installerRequestForceAsGiven(a, o) ==
    LET location == installerLocation(a, o)
    IN  IF ~a.exists
        THEN [url |-> <<"/api/v1/apps/install">>, message |-> "installed",
              location |-> location, force |-> o.force]
        ELSE IF o.configure \/ location # a.location
        THEN [url |-> <<"/api/v1/apps/", a.id, "/configure">>, message |-> "configured",
              location |-> location, force |-> o.force]
        ELSE [url |-> <<"/api/v1/apps/", a.id, "/update">>, message |-> "updated",
              location |-> location, force |-> o.force]

\* installer: url, message and data of the request
installerRequest(a, o) ==
    LET location == installerLocation(a, o)
    IN  IF ~a.exists
        THEN [url |-> <<"/api/v1/apps/install">>, message |-> "installed",
              location |-> location, force |-> o.force]
        ELSE IF o.configure \/ location # a.location
        THEN [url |-> <<"/api/v1/apps/", a.id, "/configure">>, message |-> "configured",
              location |-> location, force |-> o.force]
        ELSE [url |-> <<"/api/v1/apps/", a.id, "/update">>, message |-> "updated",
              location |-> location, force |-> IF a.appStoreId = "" THEN TRUE ELSE o.force]

InstallerInit ==
    /\ installerApp \in InstallerApps
    /\ installerOptions \in InstallerOptionSets
    /\ installerData = NoInstallerData
    /\ cmd = [name |-> "install", wait |-> FALSE,
              message |-> installerRequest(installerApp, installerOptions).message]
    /\ ExecUnused
    /\ ConfigUnused
    /\ FreshProcess

\* installer(app, options), getUsersAndGroups answered: the POST is sent
InstallerRun ==
    /\ ~started /\ ~exited
    /\ installerData' = installerRequest(installerApp, installerOptions)
    /\ Becomes(sendPost(State, "submit"))
    /\ last' = Event("run", "", NoResponse)
    /\ seen' = seen
    /\ flip' = ~flip
    /\ started' = TRUE
    /\ cmd' = cmd
    /\ server' = server
    /\ began' = began
    /\ UNCHANGED <<installerApp, installerOptions>>
    /\ UNCHANGED execVars
    /\ UNCHANGED configVars

\* the request is sent and answered; the wait that follows is that of Spec
InstallerNext ==
    \/ InstallerRun
    \/ Posted

InstallerSpec == InstallerInit /\ [][InstallerNext]_vars

\* C34: with no app the request goes to /apps/install; with an app it goes to
\* /apps/<id>/configure when configure is set or the requested location
\* differs from the app's, and to /apps/<id>/update otherwise; on the update
\* route of an app that is not from the store force is sent as true; one
\* request, to one of the three routes, is sent.
C34_RouteSelection ==
    LET a == installerApp
        o == installerOptions
        d == installerData
        relocate == o.location # Undefined /\ o.location # a.location
    IN  /\ started
          => /\ ~a.exists => d.url = <<"/api/v1/apps/install">>
             /\ (a.exists /\ (o.configure \/ relocate))
                  => d.url = <<"/api/v1/apps/", a.id, "/configure">>
             /\ (a.exists /\ ~o.configure /\ ~relocate)
                  => /\ d.url = <<"/api/v1/apps/", a.id, "/update">>
                     /\ a.appStoreId = "" => d.force
             /\ d.message = cmd.message
        /\ ~started => d = NoInstallerData /\ post = "none"

\* C34 witness: an update of an app that is not from the store, called without
\* force, was sent with force
C34_Witness ==
    /\ installerApp.exists /\ installerApp.appStoreId = ""
    /\ ~installerOptions.force /\ ~installerOptions.configure
    /\ installerData.url = <<"/api/v1/apps/", "id", "/update">>
    /\ installerData.force
    /\ post = "submit"

(***************************************************************************)
(* C35: submit, then poll.                                                 *)
(***************************************************************************)
\* the commands that submit one request and then watch a status resource
SubmitCommands == {"install", "backup", "restore", "clone", "uninstall"}

\* the status with which the server accepts the request of command c
AcceptedStatus(c) == IF c = "clone" THEN 201 ELSE 202

Accepted(c, r) == ~r.transport /\ r.status = AcceptedStatus(c)

\* no status GET is out, none is scheduled and none was ever issued
NeverPolled ==
    /\ polls = 0
    /\ \A p \in Pollers : inflight[p] = 0 /\ timers[p] = 0

\* C35: for install/update/configure, backup, restore, clone and uninstall no
\* status poll is issued while the triggering POST is unanswered; the first
\* poll is issued by the step that receives the accepted status (202, or 201
\* for clone), and the step that receives any other status or no response at
\* all ends the command with an error text and exit code 1 without a poll.
C35_SubmitThenPoll ==
    [][cmd.name \in SubmitCommands =>
        /\ (~started \/ post # "none") => NeverPolled
        /\ (last'.kind = "post" /\ ~Accepted(cmd.name, last'.resp)) =>
              /\ exited' /\ exitCode' = 1 /\ wrote' # wrote
              /\ NeverPolled'
        /\ (last'.kind = "post" /\ Accepted(cmd.name, last'.resp)) =>
              /\ ~exited'
              /\ polls' = 1
              /\ inflight' = [p \in Pollers |->
                                IF p = (IF cmd.name = "uninstall" THEN "uninstall"
                                        ELSE "waitForFinishInstallation")
                                THEN 1 ELSE 0]
        /\ (polls = 0 /\ polls' > 0) =>
              last'.kind = "post" /\ Accepted(cmd.name, last'.resp)]_vars

\* C35 witness: the clone request was answered 201 and the first status GET
\* of the new app is out
C35_Witness ==
    /\ cmd.name = "clone"
    /\ last.kind = "post" /\ last.resp.status = 201
    /\ polls = 1 /\ inflight["waitForFinishInstallation"] = 1
    /\ ~exited

(***************************************************************************)
(* C37: writes to the socket after its end.                                *)
(***************************************************************************)
\* C37: in non-tty mode, once the socket has emitted 'end' no handler calls
\* socket.write again: neither a data frame nor the frame of length zero is
\* added to what was written.
C37_NoWriteAfterSocketEnd ==
    [][(~tty /\ socket = "ended") => sent' = sent]_vars

\* C37, the part that does hold: the socket's own 'end' handler writes
\* nothing to the socket.
C37_EndHandlerWritesNothing ==
    [][last'.kind = "socketEnd" => sent' = sent]_vars

\* C37 case: the server closed the socket, and local stdin, ending after
\* that, had its frame of length zero written to the ended socket
C37_WrittenAfterEnd ==
    /\ ~tty /\ socket = "ended" /\ ~exited
    /\ last.kind = "stdinEnd"
    /\ sent # <<>> /\ sent[Len(sent)] = writeUInt32BE(0)

(***************************************************************************)
(* C38: demuxStream on a socket the server closes at any point of the      *)
(* frame sequence.                                                         *)
(***************************************************************************)
DemuxEndNext == ExecSocketData \/ ExecSocketEnd

\* the socket after the upgrade of a non-tty exec: some of the bytes arrive,
\* in pieces, and the server closes the socket
DemuxEndSpec == DemuxInit /\ [][DemuxEndNext]_vars

\* every header demuxStream holds is 8 bytes long
FullHeaders == header.null \/ Len(header.bytes) = 8

\* every payload written has the length its frame's header declares
DeclaredLengths ==
    \A i \in 1..Len(out) :
        i <= Len(frames) /\ Len(out[i].bytes) = Len(frames[i].payload)

\* C38: every payload demuxStream writes to stdout or stderr has the length
\* declared in its frame's header and every header it interprets is 8 bytes
\* long, in every reachable state, the socket having ended inside a header or
\* inside a payload included.
C38_HeadersAndPayloadsWhole == FullHeaders /\ DeclaredLengths

\* C38, the part that does hold: as long as the server has not closed the
\* socket, headers are 8 bytes long and payloads have their declared length.
C38_WholeUntilSocketEnds == socket = "framed" => FullHeaders /\ DeclaredLengths

\* C38 case: the server closed the socket inside a payload, and the bytes
\* that had arrived of it were written as a payload
C38_ShortPayloadWritten ==
    /\ socket = "ended" /\ ~exited
    /\ out # <<>>
    /\ Len(out[Len(out)].bytes) < Len(frames[Len(out)].payload)

\* C38 case: the server closed the socket inside a header, and the bytes that
\* had arrived of it were taken for a header
C38_ShortHeaderRead ==
    /\ last.kind = "socketEof" /\ exited /\ exitCode = 1
    /\ ~header.null /\ Len(header.bytes) < 8

(***************************************************************************)
(* C39: what the install-style wait takes for the end of the operation.    *)
(***************************************************************************)
\* an install poll is answered 'installed': the install-style wait is over
ObservesInstalled ==
    /\ last'.kind = "response" /\ last'.poller = "waitForFinishInstallation"
    /\ ~last'.resp.transport /\ last'.resp.status = 200
    /\ last'.resp.body.installationState = "installed"

\* C39: the install-style wait ends on an 'installed' only if the server has
\* changed the app's installationState since the request was sent; an
\* 'installed' from before the server began the operation, such as one the
\* first poll after the 202 may get, does not end it.
C39_CompletesOnlyAfterServerBegan ==
    [][ObservesInstalled => began]_vars

\* C39, the part that does hold: the wait does not end before a poll was
\* answered 'installed', and no poll is answered before the request was
\* accepted.
C39_CompletesOnlyOnInstalled ==
    [][(cb["waitForHealthy"] = NoCallback /\ called[WaitCallback] = 0
        /\ (cb'["waitForHealthy"] # NoCallback
            \/ (called'[WaitCallback] = 1 /\ ~cbError'[WaitCallback].set)))
       => ObservesInstalled /\ post = "none" /\ started]_vars

\* C39 case: a backup is reported done although the server has not changed
\* the app's state since the request was sent
C39_ReportedBeforeServerBegan ==
    /\ cmd.name = "backup"
    /\ Succeeded /\ exited /\ exitCode = 0
    /\ ~began

====
